---- MODULE Spec2Model ----
(***************************************************************************)
(* ETL & vectorization pipeline of trade_intel_etl_rag.py:                 *)
(* TextChunkFormatter, EmbeddingGenerator.generate_batch_embeddings,       *)
(* VectorDBManager.upsert_vectors and ETLPipeline (process_raw_data_files, *)
(* _process_comtrade_file, _process_bl_file, _mark_as_processed), and      *)
(* run_full_pipeline of trade_intel_orchestrator.py.                       *)
(*                                                                         *)
(* A Python string is a sequence of pieces (Seq(STRING)); a string that    *)
(* the code slices (period) is given piece by piece, one character each.   *)
(* A Python value is tagged: Str, Num or None.                             *)
(***************************************************************************)
EXTENDS Integers, Sequences, FiniteSets, TLC

\* ------------------------------------------------------------------ bounds
\* Pipeline runs that are started in one behaviour.
MaxRuns == 2
\* Last second the wall clock reaches (datetime.now() at second granularity).
MaxClock == 1
\* Calls to the outside (embedding provider, vector store, os.rename) that
\* fail in one behaviour of the pipeline.
MaxFaults == 2
\* The batch size the pipeline works with. The code's value is 100 (the
\* default of generate_batch_embeddings and the local batch_size of
\* upsert_vectors); the model scales it down so that a file of three
\* chunks already spans two batches.
batch_size == 2
\* Longest text list and largest batch size of a direct call of
\* generate_batch_embeddings, longest entry list of a direct upsert_vectors.
MaxTexts == 3
MaxBatch == 3
MaxEntries == 3
\* Calls of a formatter on the same record.
MaxCalls == 2

\* ------------------------------------------------------------------ values
Str(s) == [t |-> "str", s |-> s]
Num(n) == [t |-> "num", n |-> n]
None == [t |-> "none"]

\* dict.get(key, default)
Get(record, key, default) ==
    IF key \in DOMAIN record THEN record[key] ELSE default

\* Python truthiness of a value: `if trade_value`
Truthy(v) ==
    CASE v.t = "num" -> v.n # 0
      [] v.t = "str" -> v.s # <<>>
      [] OTHER -> FALSE

Min(a, b) == IF a < b THEN a ELSE b

\* seq[i:j] of Python on a 1-based sequence: elements i+1 .. j
Slice(seq, i, j) == SubSeq(seq, i + 1, Min(j, Len(seq)))

DigitChar(d) == SubSeq(<<"0", "1", "2", "3", "4", "5", "6", "7", "8", "9">>, d + 1, d + 1)

RECURSIVE Digits(_)
Digits(n) == IF n < 10 THEN DigitChar(n) ELSE Digits(n \div 10) \o DigitChar(n % 10)

Pad3(n) == DigitChar(n \div 100) \o DigitChar((n \div 10) % 10) \o DigitChar(n % 10)

\* f"{n:.0f}": the digits without a thousands separator
Grouped_NoSeparator(n) == Digits(n)

\* f"{n:,.0f}" for a non-negative integer: digits grouped by thousands
RECURSIVE Grouped(_)
Grouped(n) == IF n < 1000 THEN Digits(n) ELSE Grouped(n \div 1000) \o <<",">> \o Pad3(n % 1000)

\* str.lower() on the flow descriptions the sources deliver
Lower(s) ==
    CASE s = <<"Import">> -> <<"import">>
      [] s = <<"Export">> -> <<"export">>
      [] OTHER -> s

IsDigit(c) == c \in {"0", "1", "2", "3", "4", "5", "6", "7", "8", "9"}

\* float(v) succeeds: a number, or a string of digits
Floatable(v) ==
    \/ v.t = "num"
    \/ v.t = "str" /\ v.s # <<>> /\ \A i \in 1..Len(v.s) : IsDigit(v.s[i])

DigitValue(c) == CHOOSE d \in 0..9 : DigitChar(d) = <<c>>

RECURSIVE ParseDigits(_)
ParseDigits(s) ==
    IF s = <<>> THEN 0
    ELSE 10 * ParseDigits(SubSeq(s, 1, Len(s) - 1)) + DigitValue(s[Len(s)])

\* float(v) of a value float() accepts
ToFloat(v) == IF v.t = "num" THEN v ELSE Num(ParseDigits(v.s))

\* str(v) / f"{v}" of a value
Show(v) ==
    CASE v.t = "str" -> v.s
      [] v.t = "num" -> Digits(v.n)
      [] OTHER -> <<"None">>

\* the value passed on as it is, whatever its type
ToStr_AsGiven(v) == v

\* str(v): always a string
ToStr(v) == Str(Show(v))

Unknown == <<"Unknown">>
\* 'Unknown' as the value of a field that is sliced: its seven characters
UnknownChars == <<"U", "n", "k", "n", "o", "w", "n">>
NoChunk == [none |-> TRUE]

\* ------------------------------------------------------------ the formatter
\* format_comtrade_record raises inside its try block (and so returns
\* None, None): len(period) or period[..] of a non-string, the ',.0f'
\* format of a truthy non-number trade value or of any non-number quantity,
\* flow.lower() of a non-string.
ComtradeRaises(record) ==
    LET period == Get(record, "period", Str(UnknownChars))
        trade_value == Get(record, "primaryValue", Num(0))
        qty == Get(record, "qty", Num(0))
        flow == Get(record, "flowDesc", Str(<<"Import">>))
    IN \/ period.t # "str"
       \/ Truthy(trade_value) /\ trade_value.t # "num"
       \/ qty.t # "num"
       \/ flow.t # "str"

\* period[4:] whatever the length: the month of a short period is empty
PeriodMonth_Unchecked(period) == Slice(period, 4, Len(period))

\* year = period[:4] if len(period) >= 4 else 'Unknown'
PeriodYear(period) == IF Len(period) >= 4 THEN Slice(period, 0, 4) ELSE Unknown

\* month = period[4:] if len(period) >= 6 else 'Unknown'
PeriodMonth(period) == IF Len(period) >= 6 THEN Slice(period, 4, Len(period)) ELSE Unknown

format_comtrade_record(record) ==
    IF ComtradeRaises(record) THEN NoChunk
    ELSE
    LET period == Get(record, "period", Str(UnknownChars)).s
        year == PeriodYear(period)
        month == PeriodMonth(period)
        reporter == Get(record, "reporterDesc", Str(<<"Unknown Country">>))
        partner == Get(record, "partnerDesc", Str(<<"World">>))
        hs_code == Get(record, "cmdCode", Str(Unknown))
        hs_desc == Get(record, "cmdDesc", Str(<<"Unknown Product">>))
        trade_value == Get(record, "primaryValue", Num(0))
        trade_value_formatted ==
            IF Truthy(trade_value) THEN <<"$">> \o Grouped(trade_value.n) ELSE <<"$0">>
        qty == Get(record, "qty", Num(0))
        qty_unit == Get(record, "qtyUnitAbbr", Str(<<"units">>))
        flow == Get(record, "flowDesc", Str(<<"Import">>))
    IN [text |->
            <<"Trade Statistics Update: In ">> \o month \o <<"/">> \o year \o <<", ">>
            \o Show(reporter) \o <<"'s ">> \o Lower(flow.s) \o <<"s of ">>
            \o Show(hs_desc) \o <<" (HS Code: ">> \o Show(hs_code) \o <<") from ">>
            \o Show(partner) \o <<" totaled ">> \o trade_value_formatted
            \o <<". The quantity was ">> \o Grouped(qty.n) \o <<" ">>
            \o Show(qty_unit) \o <<".">>,
        metadata |->
            [source |-> Str(<<"comtrade">>),
             date |-> Str(year \o <<"-">> \o month \o <<"-01">>),
             hs_code |-> ToStr(hs_code),
             reporter_country |-> reporter,
             partner_country |-> partner,
             trade_value_usd |-> IF Truthy(trade_value) THEN ToFloat(trade_value) ELSE Num(0),
             quantity |-> IF Truthy(qty) THEN ToFloat(qty) ELSE Num(0),
             flow |-> flow,
             period |-> Str(period)]]

\* record.get(a, record.get(b, default))
Get2(record, a, b, default) == Get(record, a, Get(record, b, default))

\* format_bl_record raises only in float(quantity) / float(weight_kg) of a
\* truthy value that is no number.
BlRaises(record) ==
    LET quantity == Get2(record, "quantity", "qty", Num(0))
        weight_kg == Get2(record, "weight_kg", "weight", Num(0))
    IN \/ Truthy(quantity) /\ ~Floatable(quantity)
       \/ Truthy(weight_kg) /\ ~Floatable(weight_kg)

format_bl_record(record) ==
    IF BlRaises(record) THEN NoChunk
    ELSE
    LET shipment_date == Get2(record, "shipment_date", "date", Str(<<"Unknown Date">>))
        buyer == Get2(record, "buyer", "consignee", Str(<<"Unknown Buyer">>))
        supplier == Get2(record, "supplier", "shipper", Str(<<"Unknown Supplier">>))
        hs_code == Get2(record, "hs_code", "hscode", Str(Unknown))
        product_desc ==
            Get2(record, "product_description", "description", Str(<<"Unknown Product">>))
        quantity == Get2(record, "quantity", "qty", Num(0))
        weight_kg == Get2(record, "weight_kg", "weight", Num(0))
        origin_country == Get2(record, "origin_country", "country_of_origin", Str(Unknown))
        dest_country ==
            Get2(record, "destination_country", "country_of_destination", Str(Unknown))
        port_of_loading == Get(record, "port_of_loading", Str(<<"Unknown Port">>))
        port_of_discharge == Get(record, "port_of_discharge", Str(<<"Unknown Port">>))
    IN [text |->
            <<"New Shipment: On ">> \o Show(shipment_date) \o <<", '">> \o Show(buyer)
            \o <<"' (in ">> \o Show(dest_country) \o <<") received a shipment of ">>
            \o Show(product_desc) \o <<" (HS Code: ">> \o Show(hs_code)
            \o <<") from '">> \o Show(supplier) \o <<"' (in ">> \o Show(origin_country)
            \o <<"). The shipment contained ">> \o Show(quantity)
            \o <<" units weighing ">> \o Show(weight_kg) \o <<"kg, shipped from ">>
            \o Show(port_of_loading) \o <<" to ">> \o Show(port_of_discharge) \o <<".">>,
        metadata |->
            [source |-> Str(<<"bill_of_lading">>),
             date |-> shipment_date,
             hs_code |-> ToStr(hs_code),
             buyer |-> buyer,
             supplier |-> supplier,
             origin_country |-> origin_country,
             destination_country |-> dest_country,
             quantity |-> IF Truthy(quantity) THEN ToFloat(quantity) ELSE Num(0),
             weight_kg |-> IF Truthy(weight_kg) THEN ToFloat(weight_kg) ELSE Num(0),
             port_of_loading |-> port_of_loading,
             port_of_discharge |-> port_of_discharge]]

\* ------------------------------------------------------- files and records
\* Raw files of the intake directory: comtrade_*.json and bl_*.json.
Files == {"comtrade_1", "comtrade_2", "bl_1"}

Kind(f) == IF f \in {"comtrade_1", "comtrade_2"} THEN "comtrade" ELSE "bl"

\* Statistical-aggregate records (the first is the sample record of
\* trade_intel_examples.py).
CR1 ==
    [period |-> Str(<<"2", "0", "2", "3", "1", "0">>), reporterDesc |-> Str(<<"Germany">>),
     partnerDesc |-> Str(<<"China">>), cmdCode |-> Str(<<"851712">>),
     cmdDesc |-> Str(<<"Smartphones">>), primaryValue |-> Num(50000000),
     qty |-> Num(100000), qtyUnitAbbr |-> Str(<<"units">>), flowDesc |-> Str(<<"Import">>)]
CR2 ==
    [period |-> Str(<<"2", "0", "2", "3">>), reporterDesc |-> Str(<<"India">>),
     cmdCode |-> Str(<<"090111">>), primaryValue |-> Num(1200), flowDesc |-> Str(<<"Export">>)]
CR3 == [period |-> Str(<<"2", "0">>), cmdCode |-> Num(8517), qty |-> Num(7)]
CR4 == [partnerDesc |-> Str(<<"Japan">>)]
\* a trade value that is no number: rejected by the formatter
CRbad == [period |-> Str(<<"2", "0", "2", "3", "1", "1">>), primaryValue |-> Str(<<"n/a">>)]

\* Shipment records.
BR1 ==
    [shipment_date |-> Str(<<"2023-10-05">>), buyer |-> Str(<<"Acme">>),
     supplier |-> Str(<<"Foxconn">>), hs_code |-> Str(<<"851712">>),
     quantity |-> Num(500), weight_kg |-> Str(<<"1", "2", "0">>)]
BR2 == [date |-> Str(<<"2023-10-06">>), consignee |-> Str(<<"Bolt">>), qty |-> Num(3)]
BRbad == [buyer |-> Str(<<"Acme">>), weight |-> Str(<<"heavy">>)]

\* What json.load gives for a file: it raises, or it returns an array.
Invalid == [json |-> "invalid", records |-> <<>>]
Array(records) == [json |-> "array", records |-> records]

\* The contents a raw file may have.
Contents(f) ==
    CASE f = "comtrade_1" -> {Array(<<CR1, CRbad, CR2, CR3>>)}
      [] f = "comtrade_2" -> {Invalid, Array(<<>>), Array(<<CR4>>), Array(<<CRbad>>)}
      [] OTHER -> {Array(<<BR1, BRbad, BR2>>)}

format_record(kind, record) ==
    IF kind = "comtrade" THEN format_comtrade_record(record) ELSE format_bl_record(record)

\* the chunks loop with a `break` at the first record the formatter
\* rejects: the records after it are lost
RECURSIVE FormatAll_StopsAtRejected(_, _)
FormatAll_StopsAtRejected(kind, records) ==
    IF records = <<>> THEN <<>>
    ELSE LET c == format_record(kind, Head(records))
         IN IF c = NoChunk THEN <<>>
            ELSE <<c>> \o FormatAll_StopsAtRejected(kind, Tail(records))

\* chunks of _process_comtrade_file / _process_bl_file: the formatted
\* records, the rejected ones left out, in the records' order
RECURSIVE FormatAll(_, _)
FormatAll(kind, records) ==
    IF records = <<>> THEN <<>>
    ELSE LET c == format_record(kind, Head(records))
         IN (IF c = NoChunk THEN <<>> ELSE <<c>>) \o FormatAll(kind, Tail(records))

\* ---------------------------------------------------- external capabilities
\* The embedding provider: embed(text) is a function of the text, and
\* embedMany preserves order.
Embed(text) == [embedding_of |-> text]
EmbedMany(batch) == [i \in 1..Len(batch) |-> Embed(batch[i])]

\* index.upsert(vectors=batch) of the vector store: an entry whose id is
\* in the batch is replaced, the last entry of the batch with an id wins.
IndexUpsert(st, batch) ==
    LET ids == {batch[i].id : i \in 1..Len(batch)}
        last(id) == CHOOSE i \in 1..Len(batch) :
                        /\ batch[i].id = id
                        /\ \A j \in 1..Len(batch) : batch[j].id = id => j <= i
    IN {e \in st : e.id \notin ids} \cup {batch[last(id)] : id \in ids}

\* -------------------------------------------------------------------- state
Procs == {1, 2}
\* the process of the sequential specifications
Runner == CHOOSE p \in Procs : \A q \in Procs : p <= q

VARIABLES
    raw,            \* names of the files in data/raw
    processed,      \* names of the files in data/processed
    content,        \* file name -> what json.load gives
    store,          \* the index: a set of (id, values, metadata) entries
    clock,          \* datetime.now(), in seconds
    runs,           \* calls of process_raw_data_files so far
    pc,             \* per process: where it is
    caller,         \* per process: "pipeline", or "direct" for a direct call
    queue,          \* per process: comtrade_files then bl_files still to process
    total_records,  \* per process: total_records of the run
    cur,            \* per process: filepath
    chunks,         \* per process: chunks
    texts,          \* per process: texts of generate_batch_embeddings
    bsize,          \* per process: batch_size of generate_batch_embeddings
    embeddings,     \* per process: embeddings
    ei,             \* per process: i of generate_batch_embeddings' loop
    fi,             \* per process: texts of the batch done by the fallback loop
    vectors,        \* per process: vectors of upsert_vectors
    ui,             \* per process: i of upsert_vectors' loop
    store0,         \* the store when the last call of upsert_vectors began
    prev,           \* vectors of the direct call of upsert_vectors before this one
    log,            \* per process: calls made to the outside for this file or call
    outcome,        \* per process: file name -> how its processing ended in this run
    budget,         \* failures of outside calls still to come
    commits,        \* file name -> renames done to data/processed
    upserted,       \* <<file, chunk position, id>> of what upsert batches have stored
    partial,        \* files for which upsert_vectors raised after it stored a batch
    discovered,     \* per process: comtrade_files + bl_files, what the globs listed
    attempted,      \* per process: the files the loops of this run have taken up
    indexes,        \* the indexes of the vector database: name -> dimension and metric
    vdb,            \* per process: the VectorDBManager under construction
    fmt,            \* a call of a formatter: the source kind, the record, what it returned
    orch            \* a call of run_full_pipeline: the scripts, the steps taken, the result

vars ==
    <<raw, processed, content, store, clock, runs, pc, caller, queue, total_records,
      cur, chunks, texts, bsize, embeddings, ei, fi, vectors, ui, store0, prev, log,
      outcome, budget,
      commits, upserted, partial, discovered, attempted, indexes, vdb, fmt,
      orch>>

fsVars == <<raw, processed, content, commits>>
histVars == <<upserted, partial>>
embedVars == <<texts, bsize, embeddings, ei, fi>>
upsertVars == <<vectors, ui, store0, prev>>
runVars == <<queue, total_records, cur, chunks>>
unitVars == <<indexes, vdb, fmt, orch>>

\* index names, the fallback of pinecone_index_name first
IndexNames == {"trade-intelligence", "trade-test"}

\* embedding lengths: all-MiniLM-L6-v2 and text-embedding-3-small
Dims == {384, 1536}

\* steps of run_full_pipeline, in the order of its list
steps == <<"ingestion", "etl", "monitoring">>

\* run_full_pipeline is not being called
NoOrch ==
    [exists |-> <<>>, launches |-> <<>>, exit |-> <<>>, started |-> <<>>, ran |-> <<>>,
     at |-> "none", result |-> "none"]

\* no formatter is being called on its own
NoCall ==
    [kind |-> "none", given |-> <<>>, record |-> <<>>, calls |-> 0, returned |-> FALSE,
     first |-> NoChunk, result |-> NoChunk]

\* no VectorDBManager is under construction: the pipeline has its own, on
\* the index of the configuration
NoVdb == [provider |-> "pinecone", index_name |-> "trade-intelligence",
          embedding_dimension |-> 1536, index |-> "trade-intelligence"]

NoFile == "none"

Event(ev, f, lo, hi, ok) == [ev |-> ev, file |-> f, lo |-> lo, hi |-> hi, ok |-> ok]

Logged(p, e) == log' = [log EXCEPT ![p] = Append(@, e)]

InitLocal ==
    /\ pc = [p \in Procs |-> "idle"]
    /\ caller = [p \in Procs |-> "pipeline"]
    /\ queue = [p \in Procs |-> <<>>]
    /\ total_records = [p \in Procs |-> 0]
    /\ cur = [p \in Procs |-> NoFile]
    /\ chunks = [p \in Procs |-> <<>>]
    /\ texts = [p \in Procs |-> <<>>]
    /\ bsize = [p \in Procs |-> batch_size]
    /\ embeddings = [p \in Procs |-> <<>>]
    /\ ei = [p \in Procs |-> 0]
    /\ fi = [p \in Procs |-> 0]
    /\ vectors = [p \in Procs |-> <<>>]
    /\ ui = [p \in Procs |-> 0]
    /\ log = [p \in Procs |-> <<>>]
    /\ outcome = [p \in Procs |-> [f \in Files |-> {}]]
    /\ discovered = [p \in Procs |-> <<>>]
    /\ attempted = [p \in Procs |-> <<>>]
    /\ indexes = [n \in IndexNames |->
                    IF n = NoVdb.index THEN [dimension |-> 1536, metric |-> "cosine"]
                    ELSE None]
    /\ vdb = [p \in Procs |-> NoVdb]
    /\ fmt = NoCall
    /\ orch = NoOrch

\* ETLPipeline.__init__ done; the intake directory holds the raw files.
Init ==
    /\ raw = Files
    /\ processed = {}
    /\ content \in {c \in [Files -> UNION {Contents(f) : f \in Files}] :
                        \A f \in Files : c[f] \in Contents(f)}
    /\ store = {}
    /\ store0 = {}
    /\ prev = <<>>
    /\ clock = 0
    /\ runs = 0
    /\ commits = [f \in Files |-> 0]
    /\ upserted = {}
    /\ partial = {}
    /\ budget = MaxFaults
    /\ InitLocal

\* ------------------------------------------------------------------ helpers
\* all orders in which glob may list the files of a set
Orders(S) ==
    {q \in [1..Cardinality(S) -> S] : \A i, j \in 1..Cardinality(S) : q[i] = q[j] => i = j}

\* `return n` of _process_comtrade_file / _process_bl_file into the loop of
\* process_raw_data_files: total_records += records_processed
ReturnToRun(p, n) ==
    /\ total_records' = [total_records EXCEPT ![p] = @ + n]
    /\ pc' = [pc EXCEPT ![p] = "files"]

\* the file's processing without its except clause: the exception leaves
\* process_raw_data_files too
Raise_Propagates(p) ==
    pc' = [pc EXCEPT ![p] = "raised"] /\ UNCHANGED total_records

\* An exception leaves the call: the except clause of the file's processing
\* logs it and returns 0; a direct call ends raised.
Raise(p) ==
    IF caller[p] = "pipeline"
    THEN ReturnToRun(p, 0)
    ELSE pc' = [pc EXCEPT ![p] = "raised"] /\ UNCHANGED total_records

\* what happened to the file in this run is noted
Noted(p, what) ==
    outcome' = IF cur[p] \in Files
               THEN [outcome EXCEPT ![p][cur[p]] = @ \cup {what}]
               ELSE outcome

\* an outside call fails
Fault == budget > 0 /\ budget' = budget - 1

\* ------------------------------------------------- process_raw_data_files
\* globs that also list data/processed: files committed before are found again
StartRun_GlobsProcessed(p) ==
    /\ pc[p] = "idle"
    /\ caller[p] = "pipeline"
    /\ runs < MaxRuns
    /\ runs' = runs + 1
    /\ \E cs \in Orders({f \in raw \cup processed : Kind(f) = "comtrade"}),
          bs \in Orders({f \in raw \cup processed : Kind(f) = "bl"}) :
            /\ queue' = [queue EXCEPT ![p] = cs \o bs]
            /\ discovered' = [discovered EXCEPT ![p] = cs \o bs]
    /\ attempted' = [attempted EXCEPT ![p] = <<>>]
    /\ total_records' = [total_records EXCEPT ![p] = 0]
    /\ outcome' = [outcome EXCEPT ![p] = [f \in Files |-> {}]]
    /\ pc' = [pc EXCEPT ![p] = "files"]
    /\ log' = [log EXCEPT ![p] = <<>>]
    /\ cur' = [cur EXCEPT ![p] = NoFile]
    /\ UNCHANGED <<fsVars, store, clock, caller, unitVars, chunks, embedVars, upsertVars, budget,
                   histVars>>

\* the files the run before took up
Tried(p) == {attempted[p][i] : i \in 1..Len(attempted[p])}

\* a run that lists only the files the run before it did not take up
StartRun_OnlyNewFiles(p) ==
    /\ pc[p] = "idle"
    /\ caller[p] = "pipeline"
    /\ runs < MaxRuns
    /\ runs' = runs + 1
    /\ \E cs \in Orders({f \in raw \ Tried(p) : Kind(f) = "comtrade"}),
          bs \in Orders({f \in raw \ Tried(p) : Kind(f) = "bl"}) :
            /\ queue' = [queue EXCEPT ![p] = cs \o bs]
            /\ discovered' = [discovered EXCEPT ![p] = cs \o bs]
    /\ attempted' = [attempted EXCEPT ![p] = <<>>]
    /\ total_records' = [total_records EXCEPT ![p] = 0]
    /\ outcome' = [outcome EXCEPT ![p] = [f \in Files |-> {}]]
    /\ pc' = [pc EXCEPT ![p] = "files"]
    /\ log' = [log EXCEPT ![p] = <<>>]
    /\ cur' = [cur EXCEPT ![p] = NoFile]
    /\ UNCHANGED <<fsVars, store, clock, caller, unitVars, chunks, embedVars, upsertVars, budget,
                   histVars>>

\* The two globs and total_records = 0.
StartRun(p) ==
    /\ pc[p] = "idle"
    /\ caller[p] = "pipeline"
    /\ runs < MaxRuns
    /\ runs' = runs + 1
    /\ \E cs \in Orders({f \in raw : Kind(f) = "comtrade"}),
          bs \in Orders({f \in raw : Kind(f) = "bl"}) :
            /\ queue' = [queue EXCEPT ![p] = cs \o bs]
            /\ discovered' = [discovered EXCEPT ![p] = cs \o bs]
    /\ attempted' = [attempted EXCEPT ![p] = <<>>]
    /\ total_records' = [total_records EXCEPT ![p] = 0]
    /\ outcome' = [outcome EXCEPT ![p] = [f \in Files |-> {}]]
    /\ pc' = [pc EXCEPT ![p] = "files"]
    /\ log' = [log EXCEPT ![p] = <<>>]
    /\ cur' = [cur EXCEPT ![p] = NoFile]
    /\ UNCHANGED <<fsVars, store, clock, caller, unitVars, chunks, embedVars, upsertVars, budget,
                   histVars>>

\* the files taken from the end of the two lists: shipment files first
NextFile_FromTheEnd(p) ==
    /\ pc[p] = "files"
    /\ queue[p] # <<>>
    /\ cur' = [cur EXCEPT ![p] = queue[p][Len(queue[p])]]
    /\ queue' = [queue EXCEPT ![p] = SubSeq(@, 1, Len(@) - 1)]
    /\ pc' = [pc EXCEPT ![p] = "open"]
    /\ log' = [log EXCEPT ![p] = <<>>]
    /\ attempted' = [attempted EXCEPT ![p] = Append(@, queue[p][Len(queue[p])])]
    /\ UNCHANGED <<fsVars, store, clock, runs, discovered, caller, unitVars, total_records, chunks, embedVars,
                   upsertVars, outcome, budget, histVars>>

\* for filepath in comtrade_files / bl_files: the next file
NextFile(p) ==
    /\ pc[p] = "files"
    /\ queue[p] # <<>>
    /\ cur' = [cur EXCEPT ![p] = Head(queue[p])]
    /\ queue' = [queue EXCEPT ![p] = Tail(@)]
    /\ pc' = [pc EXCEPT ![p] = "open"]
    /\ log' = [log EXCEPT ![p] = <<>>]
    /\ attempted' = [attempted EXCEPT ![p] = Append(@, Head(queue[p]))]
    /\ UNCHANGED <<fsVars, store, clock, runs, discovered, caller, unitVars, total_records, chunks, embedVars,
                   upsertVars, outcome, budget, histVars>>

\* both loops done: process_raw_data_files returns
EndRun(p) ==
    /\ pc[p] = "files"
    /\ queue[p] = <<>>
    /\ pc' = [pc EXCEPT ![p] = "idle"]
    /\ UNCHANGED <<fsVars, store, clock, runs, discovered, attempted, caller, unitVars, runVars, embedVars, upsertVars,
                   log, outcome, budget, histVars>>

\* ------------------------------- _process_comtrade_file / _process_bl_file
\* open(filepath) or json.load raises: logged, return 0
OpenFail(p) ==
    /\ pc[p] = "open"
    /\ cur[p] \notin raw \/ content[cur[p]].json = "invalid"
    /\ Logged(p, Event("open", cur[p], 0, 0, FALSE))
    /\ Noted(p, "open_failed")
    /\ ReturnToRun(p, 0)
    /\ UNCHANGED <<fsVars, store, clock, runs, discovered, attempted, caller, unitVars, queue, cur, chunks, embedVars,
                   upsertVars, budget, histVars>>

\* an empty file taken as done: it is moved to data/processed
OpenEmpty_Commits(p) ==
    /\ pc[p] = "open"
    /\ cur[p] \in raw
    /\ content[cur[p]].json = "array"
    /\ content[cur[p]].records = <<>>
    /\ raw' = raw \ {cur[p]}
    /\ processed' = processed \cup {cur[p]}
    /\ commits' = [commits EXCEPT ![cur[p]] = @ + 1]
    /\ Logged(p, Event("open", cur[p], 0, 0, TRUE))
    /\ Noted(p, "empty")
    /\ ReturnToRun(p, 0)
    /\ UNCHANGED <<content, store, clock, runs, discovered, attempted, caller, unitVars, queue, cur, chunks, embedVars,
                   upsertVars, budget, histVars>>

\* `if not records`: return 0
OpenEmpty(p) ==
    /\ pc[p] = "open"
    /\ cur[p] \in raw
    /\ content[cur[p]].json = "array"
    /\ content[cur[p]].records = <<>>
    /\ Logged(p, Event("open", cur[p], 0, 0, TRUE))
    /\ Noted(p, "empty")
    /\ ReturnToRun(p, 0)
    /\ UNCHANGED <<fsVars, store, clock, runs, discovered, attempted, caller, unitVars, queue, cur, chunks, embedVars,
                   upsertVars, budget, histVars>>

\* the file is claimed when it is opened: it is moved out of data/raw before
\* it is processed, so that no other run takes it up
OpenFormat_ClaimsFile(p) ==
    /\ pc[p] = "open"
    /\ cur[p] \in raw
    /\ content[cur[p]].json = "array"
    /\ content[cur[p]].records # <<>>
    /\ LET cs == FormatAll(Kind(cur[p]), content[cur[p]].records)
       IN /\ chunks' = [chunks EXCEPT ![p] = cs]
          /\ texts' = [texts EXCEPT ![p] = [i \in 1..Len(cs) |-> cs[i].text]]
    /\ bsize' = [bsize EXCEPT ![p] = batch_size]
    /\ embeddings' = [embeddings EXCEPT ![p] = <<>>]
    /\ ei' = [ei EXCEPT ![p] = 0]
    /\ fi' = [fi EXCEPT ![p] = 0]
    /\ vectors' = [vectors EXCEPT ![p] = <<>>]
    /\ ui' = [ui EXCEPT ![p] = 0]
    /\ UNCHANGED <<store0, prev>>
    /\ pc' = [pc EXCEPT ![p] = "embed"]
    /\ Logged(p, Event("open", cur[p], 0, Len(content[cur[p]].records), TRUE))
    /\ Noted(p, "opened")
    /\ raw' = raw \ {cur[p]}
    /\ UNCHANGED <<processed, content, commits, store, clock, runs, discovered, attempted, caller, unitVars, queue, total_records, cur,
                   budget, histVars>>

\* the file's processing with `if not chunks: return 0` after the chunks
\* loop: a file without an accepted record is left where it is
OpenFormat_ReturnsOnNoChunk(p) ==
    /\ pc[p] = "open"
    /\ cur[p] \in raw
    /\ content[cur[p]].json = "array"
    /\ content[cur[p]].records # <<>>
    /\ LET cs == FormatAll(Kind(cur[p]), content[cur[p]].records)
       IN /\ chunks' = [chunks EXCEPT ![p] = cs]
          /\ texts' = [texts EXCEPT ![p] = [i \in 1..Len(cs) |-> cs[i].text]]
    /\ bsize' = [bsize EXCEPT ![p] = batch_size]
    /\ embeddings' = [embeddings EXCEPT ![p] = <<>>]
    /\ ei' = [ei EXCEPT ![p] = 0]
    /\ fi' = [fi EXCEPT ![p] = 0]
    /\ vectors' = [vectors EXCEPT ![p] = <<>>]
    /\ ui' = [ui EXCEPT ![p] = 0]
    /\ UNCHANGED <<store0, prev>>
    /\ pc' = [pc EXCEPT ![p] =
                IF FormatAll(Kind(cur[p]), content[cur[p]].records) = <<>>
                THEN "files" ELSE "embed"]
    /\ Logged(p, Event("open", cur[p], 0, Len(content[cur[p]].records), TRUE))
    /\ Noted(p, "opened")
    /\ UNCHANGED <<fsVars, store, clock, runs, discovered, attempted, caller, unitVars, queue, total_records, cur,
                   budget, histVars>>

\* records decoded and formatted into chunks; generate_batch_embeddings is
\* called with the texts and the default batch size
OpenFormat(p) ==
    /\ pc[p] = "open"
    /\ cur[p] \in raw
    /\ content[cur[p]].json = "array"
    /\ content[cur[p]].records # <<>>
    /\ LET cs == FormatAll(Kind(cur[p]), content[cur[p]].records)
       IN /\ chunks' = [chunks EXCEPT ![p] = cs]
          /\ texts' = [texts EXCEPT ![p] = [i \in 1..Len(cs) |-> cs[i].text]]
    /\ bsize' = [bsize EXCEPT ![p] = batch_size]
    /\ embeddings' = [embeddings EXCEPT ![p] = <<>>]
    /\ ei' = [ei EXCEPT ![p] = 0]
    /\ fi' = [fi EXCEPT ![p] = 0]
    /\ vectors' = [vectors EXCEPT ![p] = <<>>]
    /\ ui' = [ui EXCEPT ![p] = 0]
    /\ UNCHANGED <<store0, prev>>
    /\ pc' = [pc EXCEPT ![p] = "embed"]
    /\ Logged(p, Event("open", cur[p], 0, Len(content[cur[p]].records), TRUE))
    /\ Noted(p, "opened")
    /\ UNCHANGED <<fsVars, store, clock, runs, discovered, attempted, caller, unitVars, queue, total_records, cur,
                   budget, histVars>>

\* ---------------------------------------------- generate_batch_embeddings
\* texts[i:i + batch_size + 1]: the slice taken one text too long
Batch_OneTooLong(p) == Slice(texts[p], ei[p], ei[p] + bsize[p] + 1)

\* batch = texts[i:i + batch_size]
Batch(p) == Slice(texts[p], ei[p], ei[p] + bsize[p])

\* the provider's batch call returns: embeddings.extend(batch_embeddings)
EmbedBatchOk(p) ==
    /\ pc[p] = "embed"
    /\ ei[p] < Len(texts[p])
    /\ embeddings' = [embeddings EXCEPT ![p] = @ \o EmbedMany(Batch(p))]
    /\ ei' = [ei EXCEPT ![p] = @ + bsize[p]]
    /\ Logged(p, Event("embed_batch", cur[p], ei[p], ei[p] + Len(Batch(p)), TRUE))
    /\ UNCHANGED <<fsVars, store, clock, runs, discovered, attempted, pc, caller, unitVars, runVars, texts, bsize, fi,
                   upsertVars, outcome, budget, histVars>>

\* the provider's batch call raises: the except clause starts the
\* single-item loop over the batch
EmbedBatchFail(p) ==
    /\ pc[p] = "embed"
    /\ ei[p] < Len(texts[p])
    /\ Fault
    /\ fi' = [fi EXCEPT ![p] = 0]
    /\ pc' = [pc EXCEPT ![p] = "fallback"]
    /\ Logged(p, Event("embed_batch", cur[p], ei[p], ei[p] + Len(Batch(p)), FALSE))
    /\ UNCHANGED <<fsVars, store, clock, runs, discovered, attempted, caller, unitVars, runVars, texts, bsize, embeddings,
                   ei, upsertVars, outcome, histVars>>

\* the fallback loop running over texts in place of batch: the text embedded
\* is taken at the batch's position from the start of the whole list
EmbedSingleOk_FromStart(p) ==
    /\ pc[p] = "fallback"
    /\ fi[p] < Len(Batch(p))
    /\ embeddings' = [embeddings EXCEPT ![p] = Append(@, Embed(texts[p][fi[p] + 1]))]
    /\ Logged(p, Event("embed_single", cur[p], ei[p] + fi[p], ei[p] + fi[p] + 1, TRUE))
    /\ IF fi[p] + 1 = Len(Batch(p))
       THEN /\ pc' = [pc EXCEPT ![p] = "embed"]
            /\ ei' = [ei EXCEPT ![p] = @ + bsize[p]]
            /\ fi' = [fi EXCEPT ![p] = 0]
       ELSE /\ fi' = [fi EXCEPT ![p] = @ + 1]
            /\ UNCHANGED <<pc, ei>>
    /\ UNCHANGED <<fsVars, store, clock, runs, discovered, attempted, caller, unitVars, runVars, texts, bsize, upsertVars,
                   outcome, budget, histVars>>

\* embeddings.append(self.generate_embedding(text)) for the next text of
\* the batch; after the last one the outer loop goes on
EmbedSingleOk(p) ==
    /\ pc[p] = "fallback"
    /\ fi[p] < Len(Batch(p))
    /\ embeddings' = [embeddings EXCEPT ![p] = Append(@, Embed(Batch(p)[fi[p] + 1]))]
    /\ Logged(p, Event("embed_single", cur[p], ei[p] + fi[p], ei[p] + fi[p] + 1, TRUE))
    /\ IF fi[p] + 1 = Len(Batch(p))
       THEN /\ pc' = [pc EXCEPT ![p] = "embed"]
            /\ ei' = [ei EXCEPT ![p] = @ + bsize[p]]
            /\ fi' = [fi EXCEPT ![p] = 0]
       ELSE /\ fi' = [fi EXCEPT ![p] = @ + 1]
            /\ UNCHANGED <<pc, ei>>
    /\ UNCHANGED <<fsVars, store, clock, runs, discovered, attempted, caller, unitVars, runVars, texts, bsize, upsertVars,
                   outcome, budget, histVars>>

\* generate_embedding returning None in place of its `raise`: the text gets
\* a null vector and the loop goes on
EmbedSingleFail_NullVector(p) ==
    /\ pc[p] = "fallback"
    /\ fi[p] < Len(Batch(p))
    /\ Fault
    /\ embeddings' = [embeddings EXCEPT ![p] = Append(@, None)]
    /\ Logged(p, Event("embed_single", cur[p], ei[p] + fi[p], ei[p] + fi[p] + 1, FALSE))
    /\ Noted(p, "embed_failed")
    /\ IF fi[p] + 1 = Len(Batch(p))
       THEN /\ pc' = [pc EXCEPT ![p] = "embed"]
            /\ ei' = [ei EXCEPT ![p] = @ + bsize[p]]
            /\ fi' = [fi EXCEPT ![p] = 0]
       ELSE /\ fi' = [fi EXCEPT ![p] = @ + 1]
            /\ UNCHANGED <<pc, ei>>
    /\ UNCHANGED <<fsVars, store, clock, runs, discovered, attempted, caller, unitVars, runVars, texts, bsize, upsertVars,
                   histVars>>

\* generate_embedding raises and re-raises: the error leaves
\* generate_batch_embeddings
EmbedSingleFail(p) ==
    /\ pc[p] = "fallback"
    /\ fi[p] < Len(Batch(p))
    /\ Fault
    /\ Logged(p, Event("embed_single", cur[p], ei[p] + fi[p], ei[p] + fi[p] + 1, FALSE))
    /\ Noted(p, "embed_failed")
    /\ Raise(p)
    /\ UNCHANGED <<fsVars, store, clock, runs, discovered, attempted, caller, unitVars, queue, cur, chunks, embedVars,
                   upsertVars, histVars>>

\* `return embeddings`; the file's processing goes on to mint the ids
EmbedReturn(p) ==
    /\ pc[p] = "embed"
    /\ ei[p] >= Len(texts[p])
    /\ pc' = [pc EXCEPT ![p] = IF caller[p] = "pipeline" THEN "ids" ELSE "returned"]
    /\ UNCHANGED <<fsVars, store, clock, runs, discovered, attempted, caller, unitVars, runVars, embedVars, upsertVars,
                   log, outcome, budget, histVars>>

\* ------------------------------------------------ the vectors of the file
\* f"comtrade_{datetime.now().strftime('%Y%m%d%H%M%S')}_{i}": the prefix of
\* the source kind, the second of the clock, the position
VecId(kind, now, i) == <<kind, now, i>>

\* vectors.append((vec_id, embeddings[i], text, metadata))
Vector(vec_id, embedding, text, metadata) ==
    [id |-> vec_id, embedding |-> embedding, text |-> text, metadata |-> metadata]

\* embeddings[i - 1] in place of embeddings[i]: every chunk gets the vector
\* of the chunk before it, the first one that of the last
AssignId_PreviousVector(p) ==
    /\ pc[p] = "ids"
    /\ Len(vectors[p]) < Len(chunks[p])
    /\ \E now \in clock..MaxClock :
        /\ clock' = now
        /\ LET i == Len(vectors[p])
               c == chunks[p][i + 1]
           IN vectors' = [vectors EXCEPT ![p] =
                  Append(@, Vector(VecId(Kind(cur[p]), now, i), embeddings[p][IF i = 0 THEN Len(embeddings[p]) ELSE i],
                                   c.text, c.metadata))]
    /\ UNCHANGED <<fsVars, store, runs, discovered, attempted, pc, caller, unitVars, runVars, embedVars, ui, store0,
                   prev, log, outcome, budget, histVars>>

\* one round of `for i, (text, metadata) in enumerate(chunks)`;
\* datetime.now() gives a second not before the last one read
AssignId(p) ==
    /\ pc[p] = "ids"
    /\ Len(vectors[p]) < Len(chunks[p])
    /\ \E now \in clock..MaxClock :
        /\ clock' = now
        /\ LET i == Len(vectors[p])
               c == chunks[p][i + 1]
           IN vectors' = [vectors EXCEPT ![p] =
                  Append(@, Vector(VecId(Kind(cur[p]), now, i), embeddings[p][i + 1],
                                   c.text, c.metadata))]
    /\ UNCHANGED <<fsVars, store, runs, discovered, attempted, pc, caller, unitVars, runVars, embedVars, ui, store0,
                   prev, log, outcome, budget, histVars>>

\* self.vector_db.upsert_vectors(vectors)
CallUpsert(p) ==
    /\ pc[p] = "ids"
    /\ Len(vectors[p]) = Len(chunks[p])
    /\ ui' = [ui EXCEPT ![p] = 0]
    /\ store0' = store
    /\ pc' = [pc EXCEPT ![p] = "upsert"]
    /\ UNCHANGED <<fsVars, store, clock, runs, discovered, attempted, caller, unitVars, runVars, embedVars, vectors, prev,
                   log, outcome, budget, histVars>>

\* ----------------------------------------------------------- upsert_vectors
\* upsert_data: (vec_id, embedding, {**metadata, 'text': text}) for each
\* (vec_id, embedding, text, metadata) of vectors
UpsertData(v) ==
    [id |-> v.id,
     values |-> v.embedding,
     metadata |-> [k \in DOMAIN v.metadata \cup {"text"} |->
                      IF k = "text" THEN Str(v.text) ELSE v.metadata[k]]]

PrepareAll(vs) == [i \in 1..Len(vs) |-> UpsertData(vs[i])]

\* upsert_data[i + 1:i + batch_size]: the slice that loses the first entry
\* of every batch
UpsertSlice_SkipsFirst(vs, i) == Slice(PrepareAll(vs), i + 1, i + batch_size)

\* batch = upsert_data[i:i + batch_size], i the loop's position
UpsertSlice(vs, i) == Slice(PrepareAll(vs), i, i + batch_size)

UpsertBatch(p) == UpsertSlice(vectors[p], ui[p])

\* an insert in place of the upsert: the batch is added to the index and
\* nothing is replaced
UpsertBatchOk_Insert(p) ==
    /\ pc[p] = "upsert"
    /\ ui[p] < Len(vectors[p])
    /\ store' = store \cup {UpsertBatch(p)[i] : i \in 1..Len(UpsertBatch(p))}
    /\ ui' = [ui EXCEPT ![p] = @ + batch_size]
    /\ upserted' = upserted \cup {<<cur[p], k, vectors[p][k + 1].id>> :
                                    k \in ui[p]..(ui[p] + Len(UpsertBatch(p)) - 1)}
    /\ Logged(p, Event("upsert", cur[p], ui[p], ui[p] + Len(UpsertBatch(p)), TRUE))
    /\ UNCHANGED <<fsVars, clock, runs, discovered, attempted, pc, caller, unitVars, runVars, embedVars, vectors, store0,
                   prev, outcome, budget, partial>>

\* self.index.upsert(vectors=batch) returns
UpsertBatchOk(p) ==
    /\ pc[p] = "upsert"
    /\ ui[p] < Len(vectors[p])
    /\ store' = IndexUpsert(store, UpsertBatch(p))
    /\ ui' = [ui EXCEPT ![p] = @ + batch_size]
    /\ upserted' = upserted \cup {<<cur[p], k, vectors[p][k + 1].id>> :
                                    k \in ui[p]..(ui[p] + Len(UpsertBatch(p)) - 1)}
    /\ Logged(p, Event("upsert", cur[p], ui[p], ui[p] + Len(UpsertBatch(p)), TRUE))
    /\ UNCHANGED <<fsVars, clock, runs, discovered, attempted, pc, caller, unitVars, runVars, embedVars, vectors, store0,
                   prev, outcome, budget, partial>>

\* upsert_vectors without its `raise`: the error is logged and the file's
\* processing goes on to _mark_as_processed
UpsertBatchFail_Swallowed(p) ==
    /\ pc[p] = "upsert"
    /\ ui[p] < Len(vectors[p])
    /\ Fault
    /\ Logged(p, Event("upsert", cur[p], ui[p], ui[p] + Len(UpsertBatch(p)), FALSE))
    /\ Noted(p, "upsert_failed")
    /\ partial' = IF ui[p] > 0 THEN partial \cup {cur[p]} ELSE partial
    /\ pc' = [pc EXCEPT ![p] = IF caller[p] = "pipeline" THEN "mark" ELSE "returned"]
    /\ UNCHANGED <<fsVars, store, clock, runs, discovered, attempted, caller, unitVars, runVars, embedVars, upsertVars,
                   upserted>>

\* upsert_vectors with a retry: the batch that failed is sent again
UpsertBatchFail_Retried(p) ==
    /\ pc[p] = "upsert"
    /\ ui[p] < Len(vectors[p])
    /\ Fault
    /\ Logged(p, Event("upsert", cur[p], ui[p], ui[p] + Len(UpsertBatch(p)), FALSE))
    /\ Noted(p, "upsert_failed")
    /\ UNCHANGED <<fsVars, store, clock, runs, discovered, attempted, caller, unitVars,
                   runVars, embedVars, upsertVars, histVars, pc>>

\* self.index.upsert raises: logged and re-raised
UpsertBatchFail(p) ==
    /\ pc[p] = "upsert"
    /\ ui[p] < Len(vectors[p])
    /\ Fault
    /\ Logged(p, Event("upsert", cur[p], ui[p], ui[p] + Len(UpsertBatch(p)), FALSE))
    /\ Noted(p, "upsert_failed")
    /\ partial' = IF ui[p] > 0 THEN partial \cup {cur[p]} ELSE partial
    /\ Raise(p)
    /\ UNCHANGED <<fsVars, store, clock, runs, discovered, attempted, caller, unitVars, queue, cur, chunks, embedVars,
                   upsertVars, upserted>>

\* the loop is done: upsert_vectors returns
UpsertReturn(p) ==
    /\ pc[p] = "upsert"
    /\ ui[p] >= Len(vectors[p])
    /\ pc' = [pc EXCEPT ![p] = IF caller[p] = "pipeline" THEN "mark" ELSE "returned"]
    /\ UNCHANGED <<fsVars, store, clock, runs, discovered, attempted, caller, unitVars, runVars, embedVars, upsertVars, log,
                   outcome, budget, histVars>>

\* -------------------------------------------------------- _mark_as_processed
\* shutil.copy in place of os.rename: the file is also left in data/raw
RenameOk_Copy(p) ==
    /\ pc[p] = "mark"
    /\ cur[p] \in raw
    /\ processed' = processed \cup {cur[p]}
    /\ commits' = [commits EXCEPT ![cur[p]] = @ + 1]
    /\ Logged(p, Event("rename", cur[p], 0, Len(chunks[p]), TRUE))
    /\ Noted(p, "committed")
    /\ ReturnToRun(p, Len(chunks[p]))
    /\ UNCHANGED <<raw, content, store, clock, runs, discovered, attempted, caller, unitVars, queue, cur, chunks, embedVars,
                   upsertVars, budget, histVars>>

\* os.rename(filepath, processed_path) succeeds; `return len(chunks)`
RenameOk(p) ==
    /\ pc[p] = "mark"
    /\ cur[p] \in raw
    /\ raw' = raw \ {cur[p]}
    /\ processed' = processed \cup {cur[p]}
    /\ commits' = [commits EXCEPT ![cur[p]] = @ + 1]
    /\ Logged(p, Event("rename", cur[p], 0, Len(chunks[p]), TRUE))
    /\ Noted(p, "committed")
    /\ ReturnToRun(p, Len(chunks[p]))
    /\ UNCHANGED <<content, store, clock, runs, discovered, attempted, caller, unitVars, queue, cur, chunks, embedVars,
                   upsertVars, budget, histVars>>

\* _mark_as_processed without its except clause: the error of os.rename
\* reaches the except clause of the file's processing, which returns 0
RenameFail_Raised(p) ==
    /\ pc[p] = "mark"
    /\ IF cur[p] \in raw THEN Fault ELSE UNCHANGED budget
    /\ Logged(p, Event("rename", cur[p], 0, Len(chunks[p]), FALSE))
    /\ Noted(p, "rename_failed")
    /\ Raise(p)
    /\ UNCHANGED <<fsVars, store, clock, runs, discovered, attempted, caller, unitVars,
                   queue, cur, chunks, embedVars, upsertVars, histVars>>

\* os.rename raises (the file is gone from data/raw, or the call fails):
\* logged and swallowed; `return len(chunks)`
RenameFail(p) ==
    /\ pc[p] = "mark"
    /\ IF cur[p] \in raw THEN Fault ELSE UNCHANGED budget
    /\ Logged(p, Event("rename", cur[p], 0, Len(chunks[p]), FALSE))
    /\ Noted(p, "rename_failed")
    /\ ReturnToRun(p, Len(chunks[p]))
    /\ UNCHANGED <<fsVars, store, clock, runs, discovered, attempted, caller, unitVars, queue, cur, chunks, embedVars,
                   upsertVars, histVars>>

Step(p) ==
    \/ StartRun(p)
    \/ NextFile(p)
    \/ EndRun(p)
    \/ OpenFail(p)
    \/ OpenEmpty(p)
    \/ OpenFormat(p)
    \/ EmbedBatchOk(p)
    \/ EmbedBatchFail(p)
    \/ EmbedSingleOk(p)
    \/ EmbedSingleFail(p)
    \/ EmbedReturn(p)
    \/ AssignId(p)
    \/ CallUpsert(p)
    \/ UpsertBatchOk(p)
    \/ UpsertBatchFail(p)
    \/ UpsertReturn(p)
    \/ RenameOk(p)
    \/ RenameFail(p)

\* Sequential runs of the pipeline, one after the other.
Next == Step(Runner)

Spec == Init /\ [][Next]_vars

\* The program keeps running: a step that can be taken is taken, and
\* process_raw_data_files is invoked again after it returned.
\* data/raw holds the two Comtrade files when the first run is invoked: one
\* of several batches, one that json.load rejects or that holds no record.
LiveFiles == {"comtrade_1", "comtrade_2"}

InitLive ==
    /\ raw = LiveFiles
    /\ processed = {}
    /\ content \in {c \in [Files -> UNION {Contents(f) : f \in Files}] :
                        /\ \A f \in Files : c[f] \in Contents(f)
                        /\ c["comtrade_2"].records = <<>>}
    /\ store = {}
    /\ store0 = {}
    /\ prev = <<>>
    /\ clock = 0
    /\ runs = 0
    /\ commits = [f \in Files |-> 0]
    /\ upserted = {}
    /\ partial = {}
    /\ budget = MaxFaults
    /\ InitLocal

SpecLive == InitLive /\ [][Next]_vars /\ WF_vars(Next)

\* --------------------------------------- two runs of the pipeline at once
\* the file in data/raw when two processes run main() side by side
ConcFiles == {"comtrade_2"}

InitConc ==
    /\ raw = ConcFiles
    /\ processed = {}
    /\ content \in {c \in [Files -> UNION {Contents(f) : f \in Files}] :
                        \A f \in Files : c[f] \in Contents(f)}
    /\ store = {}
    /\ store0 = {}
    /\ prev = <<>>
    /\ clock = 0
    /\ runs = 0
    /\ commits = [f \in Files |-> 0]
    /\ upserted = {}
    /\ partial = {}
    /\ budget = MaxFaults
    /\ InitLocal

\* each step is a step of one of the processes; nothing orders them
NextConc == \E p \in Procs : Step(p)

SpecConc == InitConc /\ [][NextConc]_vars

\* ------------------------------- generate_batch_embeddings, called directly
\* the default of the batch_size parameter
default_batch_size == 100

TextA == <<"alpha">>
TextB == <<"beta">>

\* 250 texts for a batch size of 100
ScenarioTexts == [i \in 1..250 |-> <<"text ">> \o Digits(i)]

\* the calls generate_batch_embeddings(texts, batch_size) that are tried
DirectEmbedCalls ==
    ((UNION {[1..n -> {TextA, TextB}] : n \in 0..MaxTexts}) \X (1..MaxBatch))
    \cup {<<ScenarioTexts, default_batch_size>>}

InitDirect ==
    /\ raw = {}
    /\ processed = {}
    /\ content = [f \in Files |-> Array(<<>>)]
    /\ clock = 0
    /\ runs = 0
    /\ commits = [f \in Files |-> 0]
    /\ upserted = {}
    /\ partial = {}
    /\ caller = [p \in Procs |-> "direct"]
    /\ queue = [p \in Procs |-> <<>>]
    /\ total_records = [p \in Procs |-> 0]
    /\ cur = [p \in Procs |-> NoFile]
    /\ chunks = [p \in Procs |-> <<>>]
    /\ embeddings = [p \in Procs |-> <<>>]
    /\ ei = [p \in Procs |-> 0]
    /\ fi = [p \in Procs |-> 0]
    /\ ui = [p \in Procs |-> 0]
    /\ log = [p \in Procs |-> <<>>]
    /\ outcome = [p \in Procs |-> [f \in Files |-> {}]]
    /\ discovered = [p \in Procs |-> <<>>]
    /\ attempted = [p \in Procs |-> <<>>]
    /\ prev = <<>>
    /\ indexes = [n \in IndexNames |->
                    IF n = NoVdb.index THEN [dimension |-> 1536, metric |-> "cosine"]
                    ELSE None]
    /\ vdb = [p \in Procs |-> NoVdb]
    /\ fmt = NoCall
    /\ orch = NoOrch

\* generate_batch_embeddings(texts, batch_size) has just been called
InitEmbed ==
    /\ InitDirect
    /\ store = {}
    /\ store0 = {}
    /\ vectors = [p \in Procs |-> <<>>]
    /\ \E call \in DirectEmbedCalls :
        /\ texts = [p \in Procs |-> IF p = Runner THEN call[1] ELSE <<>>]
        /\ bsize = [p \in Procs |-> IF p = Runner THEN call[2] ELSE batch_size]
        /\ budget = Len(call[1]) + 1
    /\ pc = [p \in Procs |-> IF p = Runner THEN "embed" ELSE "idle"]

NextEmbed ==
    \/ EmbedBatchOk(Runner)
    \/ EmbedBatchFail(Runner)
    \/ EmbedSingleOk(Runner)
    \/ EmbedSingleFail(Runner)
    \/ EmbedReturn(Runner)

SpecEmbed == InitEmbed /\ [][NextEmbed]_vars

\* ------------------------------------------ upsert_vectors, called directly
IdA == VecId("comtrade", 0, 0)
IdB == VecId("comtrade", 0, 1)
IdC == VecId("bl", 0, 0)

MetaOf(record) == format_comtrade_record(record).metadata
TextOf(record) == format_comtrade_record(record).text
VectorOf(id, record) == Vector(id, Embed(TextOf(record)), TextOf(record), MetaOf(record))

\* the (id, vector, text, metadata) tuples the direct calls are made of
DirectVectors == {VectorOf(IdA, CR1), VectorOf(IdA, CR2), VectorOf(IdB, CR3)}

DirectUpsertCalls == UNION {[1..n -> DirectVectors] : n \in 0..MaxEntries}

\* the stores a direct call starts from: empty, or holding entries of
\* earlier calls
DirectStores == {{}, {UpsertData(VectorOf(IdA, CR4)), UpsertData(VectorOf(IdC, CR4))}}

\* upsert_vectors(vectors) has just been called
InitUpsert ==
    /\ InitDirect
    /\ store \in DirectStores
    /\ store0 = store
    /\ texts = [p \in Procs |-> <<>>]
    /\ bsize = [p \in Procs |-> batch_size]
    /\ \E vs \in DirectUpsertCalls :
        vectors = [p \in Procs |-> IF p = Runner THEN vs ELSE <<>>]
    /\ budget = 1
    /\ pc = [p \in Procs |-> IF p = Runner THEN "upsert" ELSE "idle"]

\* the caller calls upsert_vectors once more after it returned, with the
\* same tuples or with others
CallUpsertAgain(p) ==
    /\ pc[p] = "returned"
    /\ prev = <<>>
    /\ vectors[p] # <<>>
    /\ prev' = vectors[p]
    /\ \E vs \in DirectUpsertCalls : vectors' = [vectors EXCEPT ![p] = vs]
    /\ ui' = [ui EXCEPT ![p] = 0]
    /\ store0' = store
    /\ pc' = [pc EXCEPT ![p] = "upsert"]
    /\ log' = [log EXCEPT ![p] = <<>>]
    /\ UNCHANGED <<fsVars, store, clock, runs, discovered, attempted, caller, unitVars, runVars, embedVars, outcome, budget,
                   histVars>>

NextUpsert ==
    \/ UpsertBatchOk(Runner)
    \/ UpsertBatchFail(Runner)
    \/ UpsertReturn(Runner)
    \/ CallUpsertAgain(Runner)

SpecUpsert == InitUpsert /\ [][NextUpsert]_vars

\* ------------------------------------------------- VectorDBManager.__init__
\* the configurations and the databases a VectorDBManager is constructed on
Providers == {"pinecone", "weaviate"}
Metrics == {"cosine", "euclidean"}
IndexStates == {None} \cup [dimension : Dims, metric : Metrics]

\* VectorDBManager(config, embedding_dimension) has just been called
InitVdb ==
    /\ raw = {}
    /\ processed = {}
    /\ content = [f \in Files |-> Array(<<>>)]
    /\ store = {}
    /\ store0 = {}
    /\ prev = <<>>
    /\ clock = 0
    /\ runs = 0
    /\ commits = [f \in Files |-> 0]
    /\ upserted = {}
    /\ partial = {}
    /\ budget = 0
    /\ queue = [p \in Procs |-> <<>>]
    /\ total_records = [p \in Procs |-> 0]
    /\ cur = [p \in Procs |-> NoFile]
    /\ chunks = [p \in Procs |-> <<>>]
    /\ texts = [p \in Procs |-> <<>>]
    /\ bsize = [p \in Procs |-> batch_size]
    /\ embeddings = [p \in Procs |-> <<>>]
    /\ ei = [p \in Procs |-> 0]
    /\ fi = [p \in Procs |-> 0]
    /\ vectors = [p \in Procs |-> <<>>]
    /\ ui = [p \in Procs |-> 0]
    /\ log = [p \in Procs |-> <<>>]
    /\ outcome = [p \in Procs |-> [f \in Files |-> {}]]
    /\ discovered = [p \in Procs |-> <<>>]
    /\ attempted = [p \in Procs |-> <<>>]
    /\ caller = [p \in Procs |-> "direct"]
    /\ indexes \in [IndexNames -> IndexStates]
    /\ \E pr \in Providers, n \in IndexNames, d \in Dims :
        vdb = [p \in Procs |->
                 IF p = Runner
                 THEN [provider |-> pr, index_name |-> n, embedding_dimension |-> d,
                       index |-> "none"]
                 ELSE NoVdb]
    /\ fmt = NoCall
    /\ orch = NoOrch
    /\ pc = [p \in Procs |-> IF p = Runner THEN "vdb_provider" ELSE "idle"]

vdbFrame ==
    <<fsVars, store, clock, runs, discovered, attempted, caller, runVars, embedVars,
      upsertVars, outcome, budget, histVars, fmt, orch>>

\* `if self.provider == 'pinecone'` ... `else: raise ValueError`
VdbProvider(p) ==
    /\ pc[p] = "vdb_provider"
    /\ pc' = [pc EXCEPT ![p] = IF vdb[p].provider = "pinecone" THEN "vdb_list" ELSE "raised"]
    /\ UNCHANGED <<vdbFrame, unitVars, log>>

\* `if self.index_name not in [idx.name for idx in self.pc.list_indexes()]`:
\* self.pc.create_index(name, dimension=embedding_dimension, metric='cosine')
VdbCreate(p) ==
    /\ pc[p] = "vdb_list"
    /\ indexes[vdb[p].index_name] = None
    /\ indexes' = [indexes EXCEPT ![vdb[p].index_name] =
                      [dimension |-> vdb[p].embedding_dimension, metric |-> "cosine"]]
    /\ Logged(p, Event("create_index", NoFile, 0, 0, TRUE))
    /\ pc' = [pc EXCEPT ![p] = "vdb_connect"]
    /\ UNCHANGED <<vdbFrame, vdb>>

\* the index is listed: nothing is created
VdbExists(p) ==
    /\ pc[p] = "vdb_list"
    /\ indexes[vdb[p].index_name] # None
    /\ pc' = [pc EXCEPT ![p] = "vdb_connect"]
    /\ UNCHANGED <<vdbFrame, unitVars, log>>

\* self.index = self.pc.Index(self.index_name); __init__ returns
VdbConnect(p) ==
    /\ pc[p] = "vdb_connect"
    /\ vdb' = [vdb EXCEPT ![p].index = vdb[p].index_name]
    /\ pc' = [pc EXCEPT ![p] = "returned"]
    /\ UNCHANGED <<vdbFrame, indexes, log>>

NextVdb ==
    \/ VdbProvider(Runner)
    \/ VdbCreate(Runner)
    \/ VdbExists(Runner)
    \/ VdbConnect(Runner)

SpecVdb == InitVdb /\ [][NextVdb]_vars

\* ------------------------- format_comtrade_record / format_bl_record, called
\* ------------------------- directly on one record
\* the dict after a formatter that fills in the period it did not find
RecordAfter_Defaulted(record) ==
    IF "period" \in DOMAIN record THEN record
    ELSE [k \in DOMAIN record \cup {"period"} |->
            IF k = "period" THEN Str(UnknownChars) ELSE record[k]]

\* the dict after a call: the bodies only read it, by record.get
RecordAfter(record) == record

\* a key the record does not have
Absent == [t |-> "absent"]

\* the mapping with the keys of c that are not absent
Strip(c) == [k \in {g \in DOMAIN c : c[g] # Absent} |-> c[k]]

\* periods of 0, 2, 4, 5 and 6 characters, and a period delivered as a number
Periods ==
    {Str(<<>>), Str(<<"2", "0">>), Str(<<"2", "0", "2", "3">>),
     Str(<<"2", "0", "2", "3", "1">>), Str(<<"2", "0", "2", "3", "1", "0">>),
     Num(202310)}

\* comtrade_sample[0] of generate_sample_data
SampleComtrade ==
    [period |-> Str(<<"2", "0", "2", "3", "1", "0">>),
     reporterDesc |-> Str(<<"Germany">>),
     partnerDesc |-> Str(<<"China">>),
     cmdCode |-> Str(<<"851712">>),
     cmdDesc |-> Str(<<"Smartphones">>),
     primaryValue |-> Num(50000000),
     qty |-> Num(100000),
     qtyUnitAbbr |-> Str(<<"units">>),
     flowDesc |-> Str(<<"Import">>)]

\* Comtrade records: every field present or absent, well typed or not, and
\* the sample record
ComtradeInputs ==
    {SampleComtrade} \cup
    {Strip(c) : c \in
        [period : {Absent} \cup Periods,
         reporterDesc : {Absent, Str(<<"India">>)},
         partnerDesc : {Absent, Str(<<"Japan">>)},
         cmdCode : {Absent, Num(8517)},
         cmdDesc : {Absent, Str(<<"Telephones">>)},
         primaryValue : {Absent, Num(0), Num(1200), Str(<<"n/a">>)},
         qty : {Absent, Num(7), None},
         qtyUnitAbbr : {Absent, Str(<<"kg">>)},
         flowDesc : {Absent, Str(<<"Export">>), None}]}

\* bill-of-lading records: fields present or absent, under either of their
\* names, and the records of the pipeline's files
BlInputs ==
    {BR1, BR2, BRbad} \cup
    {Strip(c) : c \in
        [shipment_date : {Absent, Str(<<"2023-10-05">>)},
         date : {Absent, Str(<<"2023-10-06">>)},
         buyer : {Absent, Str(<<"Acme">>)},
         supplier : {Absent, Str(<<"Zenith">>)},
         hs_code : {Absent, Num(8517)},
         quantity : {Absent, Num(500), Str(<<"1", "2">>), Str(<<"many">>)},
         qty : {Absent, Num(3)},
         weight_kg : {Absent, Num(40), None},
         weight : {Absent, Str(<<"heavy">>)},
         origin_country : {Absent, Str(<<"China">>)},
         port_of_loading : {Absent, Str(<<"Shanghai">>)}]}

\* a formatter has just been called on a record
InitFormat ==
    /\ raw = {}
    /\ processed = {}
    /\ content = [f \in Files |-> Array(<<>>)]
    /\ store = {}
    /\ store0 = {}
    /\ prev = <<>>
    /\ clock = 0
    /\ runs = 0
    /\ commits = [f \in Files |-> 0]
    /\ upserted = {}
    /\ partial = {}
    /\ budget = 0
    /\ queue = [p \in Procs |-> <<>>]
    /\ total_records = [p \in Procs |-> 0]
    /\ cur = [p \in Procs |-> NoFile]
    /\ chunks = [p \in Procs |-> <<>>]
    /\ texts = [p \in Procs |-> <<>>]
    /\ bsize = [p \in Procs |-> batch_size]
    /\ embeddings = [p \in Procs |-> <<>>]
    /\ ei = [p \in Procs |-> 0]
    /\ fi = [p \in Procs |-> 0]
    /\ vectors = [p \in Procs |-> <<>>]
    /\ ui = [p \in Procs |-> 0]
    /\ log = [p \in Procs |-> <<>>]
    /\ outcome = [p \in Procs |-> [f \in Files |-> {}]]
    /\ discovered = [p \in Procs |-> <<>>]
    /\ attempted = [p \in Procs |-> <<>>]
    /\ caller = [p \in Procs |-> "direct"]
    /\ indexes = [n \in IndexNames |-> None]
    /\ vdb = [p \in Procs |-> NoVdb]
    /\ pc = [p \in Procs |-> "idle"]
    /\ orch = NoOrch
    /\ \/ \E r \in ComtradeInputs :
            fmt = [NoCall EXCEPT !.kind = "comtrade", !.given = r, !.record = r]
       \/ \E r \in BlInputs :
            fmt = [NoCall EXCEPT !.kind = "bl", !.given = r, !.record = r]

\* the calls are made at some time, one after the other, on the same dict;
\* the bodies read no clock and nothing but the record
FormatCall(text_metadata) ==
    /\ fmt.calls < MaxCalls
    /\ \E now \in clock..MaxClock : clock' = now
    /\ fmt' = [fmt EXCEPT !.calls = @ + 1,
                          !.returned = TRUE,
                          !.first = IF fmt.calls = 0 THEN text_metadata ELSE @,
                          !.result = text_metadata,
                          !.record = RecordAfter(fmt.record)]
    /\ UNCHANGED <<fsVars, store, runs, discovered, attempted, caller, runVars,
                   embedVars, upsertVars, outcome, budget, histVars, indexes, vdb, log,
                   pc, orch>>

\* DataFormatter.format_comtrade_record(record) runs to its return
FormatComtrade ==
    /\ fmt.kind = "comtrade"
    /\ FormatCall(format_comtrade_record(fmt.record))

\* DataFormatter.format_bl_record(record) runs to its return
FormatBl ==
    /\ fmt.kind = "bl"
    /\ FormatCall(format_bl_record(fmt.record))

NextFormat == FormatComtrade \/ FormatBl

SpecFormat == InitFormat /\ [][NextFormat]_vars

\* ------------------------------ TradeIntelligenceOrchestrator.run_full_pipeline
\* the components run_full_pipeline steps through
Components == {steps[i] : i \in 1..Len(steps)}

\* exit codes of a component script
ExitCodes == {0, 1}

\* run_full_pipeline has just been called: which scripts are on disk, whether
\* the interpreter can be started on them, and what they exit with
InitOrch ==
    /\ raw = {}
    /\ processed = {}
    /\ content = [f \in Files |-> Array(<<>>)]
    /\ store = {}
    /\ store0 = {}
    /\ prev = <<>>
    /\ clock = 0
    /\ runs = 0
    /\ commits = [f \in Files |-> 0]
    /\ upserted = {}
    /\ partial = {}
    /\ budget = 0
    /\ queue = [p \in Procs |-> <<>>]
    /\ total_records = [p \in Procs |-> 0]
    /\ cur = [p \in Procs |-> NoFile]
    /\ chunks = [p \in Procs |-> <<>>]
    /\ texts = [p \in Procs |-> <<>>]
    /\ bsize = [p \in Procs |-> batch_size]
    /\ embeddings = [p \in Procs |-> <<>>]
    /\ ei = [p \in Procs |-> 0]
    /\ fi = [p \in Procs |-> 0]
    /\ vectors = [p \in Procs |-> <<>>]
    /\ ui = [p \in Procs |-> 0]
    /\ log = [p \in Procs |-> <<>>]
    /\ outcome = [p \in Procs |-> [f \in Files |-> {}]]
    /\ discovered = [p \in Procs |-> <<>>]
    /\ attempted = [p \in Procs |-> <<>>]
    /\ caller = [p \in Procs |-> "direct"]
    /\ indexes = [n \in IndexNames |-> None]
    /\ vdb = [p \in Procs |-> NoVdb]
    /\ pc = [p \in Procs |-> "idle"]
    /\ fmt = NoCall
    /\ \E ex \in [Components -> BOOLEAN], la \in [Components -> BOOLEAN],
          xc \in [Components -> ExitCodes] :
        orch = [exists |-> ex, launches |-> la, exit |-> xc, started |-> <<>>,
                ran |-> <<>>, at |-> "loop", result |-> "none"]

orchFrame ==
    <<fsVars, store, clock, runs, discovered, attempted, caller, runVars, embedVars,
      upsertVars, outcome, budget, histVars, indexes, vdb, fmt, log, pc>>

\* the component of the step that is under way
Component == orch.started[Len(orch.started)]

\* the step ignored when its script exits with a non-zero code: the loop goes
\* on to the next step
OrchExitFail_Ignored ==
    /\ orch.at = "run"
    /\ orch.exit[Component] # 0
    /\ orch' = [orch EXCEPT !.at = "loop"]
    /\ UNCHANGED orchFrame

\* for step_name, component in steps: success = self._run_component(component)
OrchStep ==
    /\ orch.at = "loop"
    /\ Len(orch.started) < Len(steps)
    /\ orch' = [orch EXCEPT !.started = Append(@, steps[Len(@) + 1]), !.at = "exists"]
    /\ UNCHANGED orchFrame

\* the loop is done: return True
OrchDone ==
    /\ orch.at = "loop"
    /\ Len(orch.started) = Len(steps)
    /\ orch' = [orch EXCEPT !.at = "returned", !.result = "true"]
    /\ UNCHANGED orchFrame

\* `if not os.path.exists(script): return False`, and `if not success:
\* return False` of run_full_pipeline
OrchMissing ==
    /\ orch.at = "exists"
    /\ ~orch.exists[Component]
    /\ orch' = [orch EXCEPT !.at = "returned", !.result = "false"]
    /\ UNCHANGED orchFrame

\* subprocess.run([sys.executable, script], check=True) starts the script
OrchLaunch ==
    /\ orch.at = "exists"
    /\ orch.exists[Component]
    /\ orch.launches[Component]
    /\ orch' = [orch EXCEPT !.ran = Append(@, Component), !.at = "run"]
    /\ UNCHANGED orchFrame

\* subprocess.run raises OSError: only CalledProcessError is caught, the
\* exception leaves run_full_pipeline
OrchLaunchError ==
    /\ orch.at = "exists"
    /\ orch.exists[Component]
    /\ ~orch.launches[Component]
    /\ orch' = [orch EXCEPT !.at = "raised"]
    /\ UNCHANGED orchFrame

\* the script exits with 0: return result.returncode == 0
OrchExitOk ==
    /\ orch.at = "run"
    /\ orch.exit[Component] = 0
    /\ orch' = [orch EXCEPT !.at = "loop"]
    /\ UNCHANGED orchFrame

\* the script exits with another code: CalledProcessError, return False, and
\* `if not success: return False` of run_full_pipeline
OrchExitFail ==
    /\ orch.at = "run"
    /\ orch.exit[Component] # 0
    /\ orch' = [orch EXCEPT !.at = "returned", !.result = "false"]
    /\ UNCHANGED orchFrame

NextOrch ==
    \/ OrchStep
    \/ OrchDone
    \/ OrchMissing
    \/ OrchLaunch
    \/ OrchLaunchError
    \/ OrchExitOk
    \/ OrchExitFail

SpecOrch == InitOrch /\ [][NextOrch]_vars

\* ================================================================== claims
\* chunks a file normalizes to, and their positions
\* the chunks every content of every file formats to
ChunkTable == [f \in Files |-> [c \in Contents(f) |-> FormatAll(Kind(f), c.records)]]

\* the chunks the file formats to
ChunksOf(f) == ChunkTable[f][content[f]]
ChunkIdx(f) == 0..(Len(ChunksOf(f)) - 1)

\* position k lies in a successful call of one of the kinds evs among the
\* first n calls of the log
Covers(lg, n, evs, k) ==
    \E j \in 1..n : lg[j].ev \in evs /\ lg[j].ok /\ lg[j].lo <= k /\ k < lg[j].hi

\* some upsert batch has stored chunk k of file f
Stored(f, k) == \E u \in upserted : u[1] = f /\ u[2] = k

Has(lg, ev, ok) == \E j \in 1..Len(lg) : lg[j].ev = ev /\ lg[j].ok = ok

LastEvent(lg) == lg[Len(lg)]

\* C1: a file is in data/processed only if every chunk it normalizes to
\* has been stored by a successful upsert batch; and whenever the rename of
\* a file succeeds, the calls made for the file before it embedded every
\* chunk, upserted every chunk, none of the upsert batches failed, and the
\* store holds the entry of every chunk.
C1_CommitOnlyAfterUpsert ==
    /\ \A f \in processed : \A k \in ChunkIdx(f) : Stored(f, k)
    /\ \A p \in Procs : \A j \in 1..Len(log[p]) :
        (log[p][j].ev = "rename" /\ log[p][j].ok) =>
            /\ \A k \in ChunkIdx(log[p][j].file) :
                /\ Covers(log[p], j - 1, {"embed_batch", "embed_single"}, k)
                /\ Covers(log[p], j - 1, {"upsert"}, k)
            /\ \A i \in 1..(j - 1) : log[p][i].ev = "upsert" => log[p][i].ok
            /\ Len(vectors[p]) = Len(ChunksOf(log[p][j].file))
            /\ \A i \in 1..Len(vectors[p]) : UpsertData(vectors[p][i]) \in store

\* a file of two upsert batches is committed in a pass in which an
\* embedding batch fell back to single items
C1_Witness ==
    /\ "comtrade_1" \in processed
    /\ log[Runner] # <<>>
    /\ LastEvent(log[Runner]) = Event("rename", "comtrade_1", 0, 3, TRUE)
    /\ Has(log[Runner], "embed_single", TRUE)

\* C2: a file for which an upsert batch raised in this run is in data/raw
\* and not in data/processed, up to and at the end of the run; and no file
\* is ever renamed into data/processed twice, however often the pipeline
\* is run.
C2_UpsertFailureLeavesPending ==
    /\ \A p \in Procs : \A f \in Files :
        "upsert_failed" \in outcome[p][f] => f \in raw /\ f \notin processed
    /\ \A f \in Files : commits[f] <= 1
    /\ raw \cap processed = {}

\* the second run has ended; in it the second upsert batch of comtrade_1
\* raised after the first was stored, and another file was committed
C2_Witness ==
    /\ runs = 2
    /\ pc[Runner] = "idle"
    /\ outcome[Runner]["comtrade_1"] = {"opened", "upsert_failed"}
    /\ Stored("comtrade_1", 0)
    /\ ~Stored("comtrade_1", 2)
    /\ "bl_1" \in processed

\* C3: once a single-item fallback call has failed for a file, that call is
\* the last one made for the file (nothing is upserted, nothing renamed),
\* the processing of the file has returned to the loop over the files (or
\* the run has ended with this file), the file is in data/raw and not committed; and when the run has ended every
\* file still in data/raw was attempted.
C3_FallbackFailureAbortsFile ==
    /\ \A p \in Procs :
        Has(log[p], "embed_single", FALSE) =>
            /\ LastEvent(log[p]).ev = "embed_single"
            /\ ~LastEvent(log[p]).ok
            /\ ~Has(log[p], "upsert", TRUE) /\ ~Has(log[p], "upsert", FALSE)
            /\ pc[p] \in {"files", "idle"}
            /\ cur[p] \in raw
    /\ \A p \in Procs : \A f \in Files :
        "embed_failed" \in outcome[p][f] =>
            /\ f \in raw /\ f \notin processed
            /\ outcome[p][f] = {"opened", "embed_failed"}
    /\ \A p \in Procs :
        (pc[p] = "idle" /\ runs > 0 /\ caller[p] = "pipeline" /\ p = Runner) =>
            \A f \in raw : outcome[p][f] # {}

\* the run has ended: the fallback failed for comtrade_1, and a file that
\* came after it in the run was committed
C3_Witness ==
    /\ pc[Runner] = "idle"
    /\ "embed_failed" \in outcome[Runner]["comtrade_1"]
    /\ "committed" \in outcome[Runner]["bl_1"]
    /\ \A k \in ChunkIdx("comtrade_1") : ~Stored("comtrade_1", k)

\* the metadata a chunk is stored with
StoredMetadata(c) == UpsertData(Vector(<<>>, Embed(c.text), c.text, c.metadata)).metadata

\* the entries of the store that hold chunk k of file f
EntriesOf(f, k) == {e \in store : e.metadata = StoredMetadata(ChunksOf(f)[k + 1])}

\* C4: once a file whose processing had failed after some of its upsert
\* batches were stored has been processed successfully and committed, the
\* store holds exactly one entry for each chunk of the file.
C4_RetryLeavesOneEntryPerRecord ==
    \A f \in processed \cap partial :
        \A k \in ChunkIdx(f) : Cardinality(EntriesOf(f, k)) = 1

\* C5: the ids under which one chunk of one file has been stored, in
\* whatever passes, are all the same id.
C5_IdStableUnderReingestion ==
    \A u, v \in upserted : (u[1] = v[1] /\ u[2] = v[2]) => u[3] = v[3]

\* C6: while generate_batch_embeddings runs, the vectors gathered so far
\* are the provider's embeddings of the first texts, in the texts' order;
\* when it returns there are exactly as many vectors as texts.
C6_EmbeddingsInOrder ==
    \A p \in Procs :
        /\ Len(embeddings[p]) <= Len(texts[p])
        /\ \A i \in 1..Len(embeddings[p]) : embeddings[p][i] = Embed(texts[p][i])
        /\ pc[p] = "returned" => Len(embeddings[p]) = Len(texts[p])

\* three texts, not all the same, with a batch size of 2: the first batch
\* call failed and fell back, the second succeeded, and the call returned
C6_Witness ==
    /\ pc[Runner] = "returned"
    /\ texts[Runner] = <<TextA, TextB, TextA>>
    /\ bsize[Runner] = 2
    /\ log[Runner] =
        << Event("embed_batch", NoFile, 0, 2, FALSE),
           Event("embed_single", NoFile, 0, 1, TRUE),
           Event("embed_single", NoFile, 1, 2, TRUE),
           Event("embed_batch", NoFile, 2, 3, TRUE) >>

\* ceil(n / b)
CeilDiv(n, b) == (n + b - 1) \div b

BatchCalls(lg) == {j \in 1..Len(lg) : lg[j].ev = "embed_batch"}
SingleCalls(lg) == {j \in 1..Len(lg) : lg[j].ev = "embed_single"}

\* the single-item calls that follow the failed batch call j, up to the
\* next batch call
FallbackOf(lg, j) ==
    {i \in SingleCalls(lg) : i > j /\ \A m \in BatchCalls(lg) : m > j => i < m}

\* the last batch call before call j
BatchBefore(lg, j) ==
    CHOOSE m \in BatchCalls(lg) : m < j /\ \A n \in BatchCalls(lg) : n < j => n <= m

\* The provider calls made so far follow the schedule: the first call is the
\* batch call for texts[0:B]; a batch call is for texts[lo:lo + B], cut at the
\* end of the list; after a batch call that succeeded comes the batch call
\* for the next slice; after one that failed come the single-item calls for
\* the texts of that batch, one each and in order, then the batch call for
\* the next slice; after a single-item call that failed comes nothing.
OnSchedule(lg, n, b) ==
    \A j \in 1..Len(lg) :
        /\ lg[j].ev = "embed_batch" =>
            lg[j].lo < n /\ lg[j].hi = Min(lg[j].lo + b, n)
        /\ lg[j].ev = "embed_single" => lg[j].hi = lg[j].lo + 1
        /\ j = 1 => lg[j].ev = "embed_batch" /\ lg[j].lo = 0
        /\ j > 1 =>
            LET e == lg[j - 1] IN
            CASE e.ev = "embed_batch" /\ e.ok ->
                    lg[j].ev = "embed_batch" /\ lg[j].lo = e.hi
              [] e.ev = "embed_batch" /\ ~e.ok ->
                    lg[j].ev = "embed_single" /\ lg[j].lo = e.lo
              [] e.ev = "embed_single" /\ e.ok ->
                    IF e.hi < lg[BatchBefore(lg, j)].hi
                    THEN lg[j].ev = "embed_single" /\ lg[j].lo = e.hi
                    ELSE lg[j].ev = "embed_batch" /\ lg[j].lo = e.hi
              [] OTHER -> FALSE

\* C7 as amended: the calls follow the schedule at every moment; when
\* generate_batch_embeddings returns it has made exactly ceil(N/B) batch
\* calls and, for every batch call that failed, exactly one single-item
\* call per text of that batch; when it raises, the last call is the
\* single-item call that failed and the batch calls made are at most
\* ceil(N/B).
C7_CallSchedule ==
    \A p \in Procs :
        (caller[p] = "direct" /\ pc[p] \in {"embed", "fallback", "returned", "raised"}) =>
            LET lg == log[p]
                n == Len(texts[p])
                b == bsize[p]
            IN /\ OnSchedule(lg, n, b)
               /\ Cardinality(BatchCalls(lg)) <= CeilDiv(n, b)
               /\ pc[p] = "returned" =>
                    /\ Cardinality(BatchCalls(lg)) = CeilDiv(n, b)
                    /\ \A j \in BatchCalls(lg) :
                        ~lg[j].ok =>
                            /\ Cardinality(FallbackOf(lg, j)) = lg[j].hi - lg[j].lo
                            /\ \A i \in FallbackOf(lg, j) : lg[i].ok
               /\ pc[p] = "raised" =>
                    /\ lg # <<>>
                    /\ LastEvent(lg).ev = "embed_single" /\ ~LastEvent(lg).ok

\* C7 as claimed: whenever the call is over, it has made exactly ceil(N/B)
\* batch calls and exactly one single-item call per text of every batch
\* whose call failed.
C7_AsClaimed ==
    \A p \in Procs :
        (caller[p] = "direct" /\ pc[p] \in {"returned", "raised"}) =>
            LET lg == log[p] IN
            /\ Cardinality(BatchCalls(lg)) = CeilDiv(Len(texts[p]), bsize[p])
            /\ \A j \in BatchCalls(lg) :
                ~lg[j].ok => Cardinality(FallbackOf(lg, j)) = lg[j].hi - lg[j].lo

\* 250 texts with a batch size of 100: batch calls of 100, 100 and 50, the
\* second failed and was followed by 100 single-item calls
C7_Witness ==
    /\ pc[Runner] = "returned"
    /\ Len(texts[Runner]) = 250
    /\ bsize[Runner] = 100
    /\ Len(log[Runner]) = 103
    /\ log[Runner][1] = Event("embed_batch", NoFile, 0, 100, TRUE)
    /\ log[Runner][2] = Event("embed_batch", NoFile, 100, 200, FALSE)
    /\ \A j \in 3..102 : log[Runner][j] = Event("embed_single", NoFile, j + 97, j + 98, TRUE)
    /\ log[Runner][103] = Event("embed_batch", NoFile, 200, 250, TRUE)

\* entries of the list that the successful upsert batches of the log cover
Sent(lg) ==
    IF \E j \in 1..Len(lg) : lg[j].ev = "upsert" /\ lg[j].ok
    THEN lg[CHOOSE j \in 1..Len(lg) :
                /\ lg[j].ev = "upsert" /\ lg[j].ok
                /\ \A i \in 1..Len(lg) : (lg[i].ev = "upsert" /\ lg[i].ok) => i <= j].hi
    ELSE 0

\* the last of the first n tuples of vs that has the id
LastWith(vs, n, id) ==
    CHOOSE i \in 1..n : vs[i].id = id /\ \A j \in 1..n : vs[j].id = id => j <= i

\* the entry is the tuple as upsert_vectors stores it
IsEntryOf(e, v) ==
    /\ e.id = v.id
    /\ e.values = v.embedding
    /\ DOMAIN e.metadata = DOMAIN v.metadata \cup {"text"}
    /\ e.metadata["text"] = Str(v.text)
    /\ \A k \in DOMAIN v.metadata : k # "text" => e.metadata[k] = v.metadata[k]

\* C8: in a call of upsert_vectors the j-th call of index.upsert is for the
\* entries (j-1)*B .. j*B - 1 of the list (cut at its end), B the batch
\* size; a call that fails is the last one and the error reaches the
\* caller; at every moment the store holds, for every id among the entries
\* of the batches that succeeded, the last of those entries with that id,
\* and every entry it held when the call began under another id.
C8_UpsertBatchesInOrder ==
    \A p \in Procs :
        (caller[p] = "direct" /\ pc[p] \in {"upsert", "returned", "raised"}) =>
            LET lg == log[p]
                vs == vectors[p]
                n == Len(vs)
                sent == Sent(lg)
            IN /\ \A j \in 1..Len(lg) :
                    /\ lg[j].ev = "upsert"
                    /\ lg[j].lo = (j - 1) * batch_size
                    /\ lg[j].lo < n
                    /\ lg[j].hi = Min(lg[j].lo + batch_size, n)
                    /\ ~lg[j].ok => j = Len(lg) /\ pc[p] = "raised"
               /\ pc[p] = "raised" => lg # <<>> /\ ~LastEvent(lg).ok
               /\ pc[p] = "returned" => sent = n
               /\ sent = IF Len(lg) > 0 /\ ~LastEvent(lg).ok
                         THEN LastEvent(lg).lo
                         ELSE Min(Len(lg) * batch_size, n)
               /\ \A i \in 1..sent :
                    \E e \in store : IsEntryOf(e, vs[LastWith(vs, sent, vs[i].id)])
               /\ \A e \in store :
                    \/ e \in store0 /\ \A i \in 1..sent : vs[i].id # e.id
                    \/ \E i \in 1..sent : IsEntryOf(e, vs[LastWith(vs, sent, vs[i].id)])
               /\ \A e \in store0 : (\A i \in 1..sent : vs[i].id # e.id) => e \in store

\* the call for the second batch of three entries failed: the first batch
\* is in the store, beside what the store held before
C8_Witness ==
    /\ pc[Runner] = "raised"
    /\ Len(vectors[Runner]) = 3
    /\ log[Runner] = << Event("upsert", NoFile, 0, 2, TRUE), Event("upsert", NoFile, 2, 3, FALSE) >>
    /\ store0 # {}
    /\ store # store0
    /\ vectors[Runner][3].id = IdB
    /\ \A e \in store : e.id # IdB

\* C9: the store never holds two entries with one id; when upsert_vectors
\* returns, the store holds for every id of the list exactly the last
\* tuple with that id (an entry that was there under the id is replaced);
\* and when a call with the tuples of the call before it returns, the store
\* is what it was when that call began.
C9_UpsertIdempotent ==
    /\ \A e1, e2 \in store : e1.id = e2.id => e1 = e2
    /\ \A p \in Procs :
        (caller[p] = "direct" /\ pc[p] = "returned") =>
            /\ \A i \in 1..Len(vectors[p]) :
                \A e \in store :
                    e.id = vectors[p][i].id =>
                        IsEntryOf(e, vectors[p][LastWith(vectors[p], Len(vectors[p]),
                                                         vectors[p][i].id)])
            /\ \A i \in 1..Len(vectors[p]) : \E e \in store : e.id = vectors[p][i].id
            /\ prev = vectors[p] => store = store0

\* upsert_vectors was called twice with the same three tuples, two of them
\* under one id, an id the store held before with other content
C9_Witness ==
    /\ pc[Runner] = "returned"
    /\ prev = vectors[Runner]
    /\ Len(prev) = 3
    /\ prev[1].id = IdA /\ prev[2].id = IdB /\ prev[3].id = IdA
    /\ prev[1] # prev[3]
    /\ UpsertData(VectorOf(IdC, CR4)) \in store
    /\ Cardinality(store) = 3

\* chunks a run has counted: those of the files whose processing reached
\* `return len(chunks)`
RunTotal(p) ==
    LET done == {f \in Files : outcome[p][f] \cap {"committed", "rename_failed"} # {}}
        RECURSIVE Sum(_)
        Sum(S) == IF S = {} THEN 0
                  ELSE LET f == CHOOSE f \in S : TRUE
                       IN Len(ChunksOf(f)) + Sum(S \ {f})
    IN Sum(done)

Undecodable(f) == content[f].json = "invalid" \/ content[f].records = <<>>

\* C10: a file that is no valid JSON or decodes to an empty array is in
\* data/raw and never renamed, nothing of it is ever upserted, its
\* processing makes no call but the open, ends as failed or empty, and
\* adds nothing to the run's total; and when a run has ended every file
\* still in data/raw was attempted.
C10_UndecodableFileSkipped ==
    /\ \A f \in Files :
        Undecodable(f) =>
            /\ f \in raw /\ f \notin processed /\ commits[f] = 0
            /\ \A u \in upserted : u[1] # f
            /\ \A p \in Procs :
                /\ outcome[p][f] \subseteq {"open_failed", "empty"}
                /\ cur[p] = f =>
                    /\ pc[p] \in {"open", "files", "idle"}
                    /\ \A j \in 1..Len(log[p]) : log[p][j].ev = "open" /\ log[p][j].file = f
                    /\ Len(log[p]) <= 1
    /\ \A p \in Procs : caller[p] = "pipeline" => total_records[p] = RunTotal(p)
    /\ (pc[Runner] = "idle" /\ runs > 0) => \A f \in raw : outcome[Runner][f] # {}

\* a run has ended in which comtrade_2 was no valid JSON: it is still in
\* data/raw, and the files around it were committed and counted
C10_Witness ==
    /\ content["comtrade_2"] = Invalid
    /\ pc[Runner] = "idle"
    /\ runs = 1
    /\ outcome[Runner]["comtrade_2"] = {"open_failed"}
    /\ "comtrade_2" \in raw
    /\ processed = {"comtrade_1", "bl_1"}
    /\ total_records[Runner] = 5

\* the files of a sequence
Range(q) == {q[i] : i \in 1..Len(q)}

FileFailed(p, f) == outcome[p][f] \cap {"open_failed", "embed_failed", "upsert_failed"} # {}

\* what a run holds at every moment: it has not raised, the files taken up
\* so far followed by those still to come are the files the globs listed,
\* each of them once, and only files taken up have an outcome; when the run
\* has returned every listed file was taken up and has an outcome
RunAttemptsAll(p) ==
    /\ pc[p] # "raised"
    /\ attempted[p] \o queue[p] = discovered[p]
    /\ \A i, j \in 1..Len(discovered[p]) : discovered[p][i] = discovered[p][j] => i = j
    /\ \A f \in Files : outcome[p][f] # {} => f \in Range(attempted[p])
    /\ pc[p] = "idle" =>
        /\ attempted[p] = discovered[p]
        /\ \A f \in Range(discovered[p]) : outcome[p][f] # {}

\* a step of the processing of one file leaves every other file where it
\* is and with the outcome it has
OtherFilesUntouched ==
    \A f \in Files :
        /\ (f \in raw') # (f \in raw) => \E p \in Procs : cur[p] = f
        /\ (f \in processed') # (f \in processed) => \E p \in Procs : cur[p] = f
        /\ commits'[f] # commits[f] => \E p \in Procs : cur[p] = f
        /\ \A p \in Procs :
            (outcome'[p][f] # outcome[p][f] /\ runs' = runs) => cur[p] = f

\* C11: a run of the pipeline never raises; it takes up every file the
\* globs listed exactly once, also after files whose decoding, embedding or
\* upsert failed; and a step made for one file changes neither the place nor
\* the outcome of another file.
C11_FailureAbortsOnlyItsFile ==
    /\ [](\A p \in Procs : caller[p] = "pipeline" => RunAttemptsAll(p))
    /\ [][OtherFilesUntouched]_vars

\* a run has returned in which one file did not decode, the upsert of
\* another failed, and the third one, taken up after them, was committed
C11_Witness ==
    /\ pc[Runner] = "idle"
    /\ runs = 1
    /\ outcome[Runner]["comtrade_2"] = {"open_failed"}
    /\ "upsert_failed" \in outcome[Runner]["comtrade_1"]
    /\ outcome[Runner]["bl_1"] = {"opened", "committed"}
    /\ Len(attempted[Runner]) = 3
    /\ attempted[Runner][3] = "bl_1"
    /\ processed = {"bl_1"}

\* what the formatter gives for every record of every content of every file
FormatTable ==
    [f \in Files |-> [c \in Contents(f) |->
        [i \in 1..Len(c.records) |-> format_record(Kind(f), c.records[i])]]]

Formatted(f, i) == FormatTable[f][content[f]][i]

\* positions of the records of the file that the formatter accepts
KeptIdx(f) == {i \in 1..Len(content[f].records) : Formatted(f, i) # NoChunk}

\* how many accepted records there are up to position i
Rank(f, i) == Cardinality({j \in KeptIdx(f) : j <= i})

AllUpsertsOk(p) ==
    /\ cur[p] \in Files
    /\ Len(ChunksOf(cur[p])) > 0
    /\ \A k \in ChunkIdx(cur[p]) : Covers(log[p], Len(log[p]), {"upsert"}, k)
    /\ ~Has(log[p], "upsert", FALSE)

\* C13: when the processing of a file has returned and every upsert batch
\* of the file succeeded, the file is in data/processed; and no file is
\* renamed into data/processed more than once.
C13_CommittedOnceUpsertsSucceed ==
    /\ \A p \in Procs :
        (caller[p] = "pipeline" /\ pc[p] \in {"files", "idle"} /\ AllUpsertsOk(p))
            => cur[p] \in processed /\ cur[p] \notin raw
    /\ \A f \in Files : commits[f] <= 1

\* a step leaves a committed file committed and out of data/raw, does not
\* take it up, makes no call for it and upserts nothing of it
CommittedStays ==
    \A f \in processed :
        /\ f \in processed' /\ f \notin raw'
        /\ {u \in upserted' : u[1] = f} = {u \in upserted : u[1] = f}
        /\ \A p \in Procs :
            /\ attempted'[p] # attempted[p] /\ attempted'[p] # <<>>
                => attempted'[p][Len(attempted'[p])] # f
            /\ log'[p] # log[p] /\ log'[p] # <<>> => LastEvent(log'[p]).file # f

\* C14: a file in data/processed stays there and out of data/raw in every
\* later step; no later step takes it up, makes a call for it or upserts a
\* record of it; and only the run that committed a file has found it.
C14_CommittedStaysCommitted ==
    /\ [][CommittedStays]_vars
    /\ [](\A f \in processed :
            /\ f \notin raw
            /\ \A p \in Procs :
                (caller[p] = "pipeline" /\ f \in Range(discovered[p]))
                    => "committed" \in outcome[p][f])

\* the second run has returned: it found and committed comtrade_1, which
\* the first run left pending, and did not find bl_1, committed by the
\* first run
C14_Witness ==
    /\ runs = 2
    /\ pc[Runner] = "idle"
    /\ "bl_1" \in processed
    /\ "bl_1" \notin Range(discovered[Runner])
    /\ "comtrade_1" \in Range(discovered[Runner])
    /\ "committed" \in outcome[Runner]["comtrade_1"]
    /\ \E u \in upserted : u[1] = "bl_1"

\* the ids under which chunk k of file f has been upserted
IdsOf(f, k) == {u[3] : u \in {v \in upserted : v[1] = f /\ v[2] = k}}

\* C15: with two runs of the pipeline at once, a file that a run is
\* processing is still in data/raw, where the other run finds it, until a
\* run has renamed it; the store holds for every chunk of a file one entry
\* for each id under which a run has upserted the chunk, so as many entries
\* as the runs minted ids for it; and a file is renamed into data/processed
\* at most once, whichever runs processed it.
C15_ConcurrentRunsKeepEveryId ==
    /\ \A p \in Procs :
        (pc[p] \in {"embed", "fallback", "ids", "upsert", "mark"} /\ commits[cur[p]] = 0)
            => cur[p] \in raw
    /\ \A f \in ConcFiles : \A k \in ChunkIdx(f) :
        Cardinality(EntriesOf(f, k)) = Cardinality(IdsOf(f, k))
    /\ \A f \in Files : commits[f] <= 1
    /\ raw \cap processed = {}

\* both runs have returned; both found comtrade_2 pending, both embedded
\* and upserted its chunk, one renamed it and the rename of the other
\* failed; the store holds the chunk of the file twice
C15_Witness ==
    /\ content["comtrade_2"] = Array(<<CR4>>)
    /\ \A p \in Procs :
        /\ pc[p] = "idle"
        /\ discovered[p] = <<"comtrade_2">>
        /\ "opened" \in outcome[p]["comtrade_2"]
        /\ Has(log[p], "embed_batch", TRUE)
        /\ Has(log[p], "upsert", TRUE)
        /\ total_records[p] = 1
    /\ \E p, q \in Procs :
        /\ outcome[p]["comtrade_2"] = {"opened", "committed"}
        /\ outcome[q]["comtrade_2"] = {"opened", "rename_failed"}
    /\ runs = 2
    /\ processed = {"comtrade_2"}
    /\ Cardinality(EntriesOf("comtrade_2", 0)) = 2
    /\ Cardinality(store) = 2

\* the vector the provider returns for the text stored with the entry
VectorOfText(e) == Embed(e.metadata["text"].s)

\* C16: the tuples built for the upsert of a file pair, position by
\* position, the text and the metadata of a chunk with the provider's
\* vector for that text, one tuple per chunk when upsert_vectors is called;
\* every entry of a batch passed to the index, and every entry of the
\* store, holds the provider's vector for the text it holds, and none holds
\* no vector.
C16_EntryPairsChunkWithItsVector ==
    /\ \A p \in Procs :
        caller[p] = "pipeline" =>
            /\ \A j \in 1..Len(vectors[p]) :
                /\ j <= Len(chunks[p])
                /\ vectors[p][j].text = chunks[p][j].text
                /\ vectors[p][j].metadata = chunks[p][j].metadata
                /\ vectors[p][j].embedding = Embed(chunks[p][j].text)
                /\ vectors[p][j].embedding # None
            /\ pc[p] \in {"upsert", "mark"} =>
                /\ Len(vectors[p]) = Len(chunks[p])
                /\ Len(embeddings[p]) = Len(chunks[p])
            /\ (pc[p] = "upsert" /\ ui[p] < Len(vectors[p])) =>
                \A j \in 1..Len(UpsertBatch(p)) :
                    /\ UpsertBatch(p)[j].values = VectorOfText(UpsertBatch(p)[j])
                    /\ UpsertBatch(p)[j].metadata["text"] = Str(chunks[p][ui[p] + j].text)
    /\ \A e \in store : e.values = VectorOfText(e) /\ e.values # None

\* the second batch of comtrade_1 is about to be passed to the index: the
\* formatter had rejected the second record of the file, the first
\* embedding batch had failed and its texts were embedded one by one
C16_Witness ==
    /\ cur[Runner] = "comtrade_1"
    /\ pc[Runner] = "upsert"
    /\ ui[Runner] = batch_size
    /\ Formatted("comtrade_1", 2) = NoChunk
    /\ log[Runner][2] = Event("embed_batch", "comtrade_1", 0, 2, FALSE)
    /\ Has(log[Runner], "embed_single", TRUE)
    /\ Has(log[Runner], "embed_batch", TRUE)
    /\ Len(vectors[Runner]) = 3
    /\ UpsertBatch(Runner)[1].values = Embed(format_comtrade_record(CR3).text)
    /\ Cardinality(store) >= 2

\* C17: when the first run of the pipeline has returned, its total_records,
\* the one figure it reports of what it upserted, is the number of entries
\* that upsert batches wrote to the store during the run.
C17_TotalEqualsEntriesWritten ==
    (runs = 1 /\ pc[Runner] = "idle" /\ caller[Runner] = "pipeline")
        => total_records[Runner] = Cardinality(upserted)

\* C18: when VectorDBManager.__init__ has returned, the index it is
\* connected to has the caller's embedding_dimension, and the cosine metric
\* if this call created it: an index that was missing was created so, and
\* with an existing index of another dimension the call has not returned
\* but raised.
C18_IndexDimensionChecked ==
    \A p \in Procs :
        (caller[p] = "direct" /\ pc[p] = "returned" /\ vdb[p].index # "none") =>
            /\ indexes[vdb[p].index] # None
            /\ indexes[vdb[p].index].dimension = vdb[p].embedding_dimension
            /\ Has(log[p], "create_index", TRUE) => indexes[vdb[p].index].metric = "cosine"


\* a numeric conversion of a value, quantity or weight field of the record
\* fails: the ',.0f' format of the trade value or the quantity, float() of
\* the quantity or the weight
NumericConversionFails(kind, record) ==
    IF kind = "comtrade"
    THEN LET trade_value == Get(record, "primaryValue", Num(0))
             qty == Get(record, "qty", Num(0))
         IN \/ Truthy(trade_value) /\ trade_value.t # "num"
            \/ qty.t # "num"
    ELSE LET quantity == Get2(record, "quantity", "qty", Num(0))
             weight_kg == Get2(record, "weight_kg", "weight", Num(0))
         IN \/ Truthy(quantity) /\ ~Floatable(quantity)
            \/ Truthy(weight_kg) /\ ~Floatable(weight_kg)

\* C19: a formatter returns a chunk built from the defaults for every record,
\* whatever fields are absent, and rejects a record (returns None, None) for
\* no other reason than a failing numeric conversion of a value, quantity or
\* weight field.
C19_RejectsOnlyOnNumericConversion ==
    fmt.returned =>
        (fmt.result = NoChunk <=> NumericConversionFails(fmt.kind, fmt.record))


\* format_comtrade_record has returned a chunk for a record whose period is a
\* string of fewer than 6 characters
ShortPeriodCall ==
    /\ fmt.kind = "comtrade"
    /\ fmt.returned
    /\ fmt.result # NoChunk
    /\ "period" \in DOMAIN fmt.record
    /\ fmt.record.period.t = "str"
    /\ Len(fmt.record.period.s) < 6

\* the year segment the contract gives a period
YearSegment(per) == IF Len(per) >= 4 THEN SubSeq(per, 1, 4) ELSE <<"Unknown">>

\* C20: for a record whose period string has fewer than 6 characters the
\* month segment is the literal "Unknown" in the text and in the metadata
\* date, the period is kept as the string it was (never made a number), and
\* the year segment is the first 4 characters of a period of at least 4
\* characters and "Unknown" otherwise.
C20_ShortPeriodMonthUnknown ==
    ShortPeriodCall =>
        LET per == fmt.record.period.s
            yr == YearSegment(per)
            text == fmt.result.text
            meta == fmt.result.metadata
        IN /\ SubSeq(text, 1, 4 + Len(yr))
                = <<"Trade Statistics Update: In ", "Unknown", "/">> \o yr \o <<", ">>
           /\ meta.date = Str(yr \o <<"-", "Unknown", "-01">>)
           /\ meta.period = Str(per)

\* a period of the four characters 2023 was formatted to the date 2023-Unknown-01
C20_Witness ==
    /\ ShortPeriodCall
    /\ fmt.record.period.s = <<"2", "0", "2", "3">>
    /\ fmt.result.metadata.date = Str(<<"2", "0", "2", "3", "-", "Unknown", "-01">>)


\* the string a sequence of pieces spells
RECURSIVE Join(_)
Join(pieces) == IF pieces = <<>> THEN "" ELSE Head(pieces) \o Join(Tail(pieces))

\* format_comtrade_record has returned for the sample record
SampleCall == fmt.kind = "comtrade" /\ fmt.returned /\ fmt.record = SampleComtrade

\* C21: the sample record of Germany's smartphone imports from China in
\* 202310 is formatted to the text "Trade Statistics Update: In 10/2023,
\* Germany's imports of Smartphones (HS Code: 851712) from China totaled
\* $50,000,000." followed by the quantity sentence, with metadata source
\* comtrade, date 2023-10-01 and hs_code 851712.
C21_SampleRecordText ==
    SampleCall =>
        /\ fmt.result # NoChunk
        /\ Join(fmt.result.text)
             = "Trade Statistics Update: In 10/2023, Germany's imports of Smartphones (HS Code: 851712) from China totaled $50,000,000. The quantity was 100,000 units."
        /\ Join(fmt.result.metadata.source.s) = "comtrade"
        /\ Join(fmt.result.metadata.date.s) = "2023-10-01"
        /\ fmt.result.metadata.hs_code.t = "str"
        /\ Join(fmt.result.metadata.hs_code.s) = "851712"

\* the sample record was formatted and its trade value stored as 50000000
C21_Witness ==
    /\ SampleCall
    /\ fmt.result # NoChunk
    /\ fmt.result.metadata.trade_value_usd = Num(50000000)


Accepted == fmt.returned /\ fmt.result # NoChunk

\* C23: the metadata of every accepted record, of either source kind, has the
\* key source with the value of the formatter used (comtrade or
\* bill_of_lading), the key date, and the key hs_code with a string as value.
C23_MetadataCoreKeys ==
    Accepted =>
        LET meta == fmt.result.metadata
        IN /\ {"source", "date", "hs_code"} \subseteq DOMAIN meta
           /\ meta.source =
                Str(IF fmt.kind = "comtrade" THEN <<"comtrade">> ELSE <<"bill_of_lading">>)
           /\ meta.hs_code.t = "str"

\* a bill of lading whose hs_code was the number 8517 was formatted, and its
\* metadata holds the string 8517
C23_Witness ==
    /\ Accepted
    /\ fmt.kind = "bl"
    /\ "hs_code" \in DOMAIN fmt.given
    /\ fmt.given.hs_code = Num(8517)
    /\ fmt.result.metadata.hs_code = Str(<<"8", "5", "1", "7">>)


\* C24: ids minted for records of different files of the same source kind
\* never coincide, also when the files are processed within the same second,
\* so that no entry of a file is overwritten by a record of another file.
C24_FilesNeverShareAnId ==
    \A u, v \in upserted :
        /\ u[1] # v[1]
        /\ Kind(u[1]) = Kind(v[1])
        /\ {u[1], v[1]} \subseteq processed
        => u[3] # v[3]


\* the file decodes to a non-empty array
NonEmptyArray(f) == content[f].json = "array" /\ content[f].records # <<>>

\* a run that starts lists every file that is in data/raw
RunDiscoversPending ==
    \A p \in Procs :
        pc[p] = "idle" /\ pc'[p] = "files" => Range(discovered'[p]) = raw

\* the file is pending, a run is still to be invoked, and no call made to
\* the outside from now on fails
PendingWithGoodRunAhead(f) ==
    /\ f \in raw
    /\ NonEmptyArray(f)
    /\ pc[Runner] = "idle"
    /\ runs < MaxRuns
    /\ budget = 0

\* C25: a file left pending by a failed pass is listed again by the next
\* run, and a pending file that decodes to a non-empty array is eventually
\* committed once a run is invoked in which its embedding, upsert and rename
\* calls all succeed.
C25_PendingEventuallyCommitted ==
    /\ [][RunDiscoversPending]_vars
    /\ \A f \in Files : PendingWithGoodRunAhead(f) ~> (f \in processed)

\* a file that the first run upserted and left pending is committed by the
\* second run, which upserted its records under other ids
C25_Witness ==
    \E f \in processed :
        /\ runs = 2
        /\ budget = 0
        /\ \E u, v \in upserted : u[1] = f /\ v[1] = f /\ u[2] = v[2] /\ u[3] # v[3]


\* ceil(n / b)
Ceil(n, b) == (n + b - 1) \div b

\* the calls of a kind that carried chunk k of the file
CallsOn(lg, ev, k) == {j \in 1..Len(lg) : lg[j].ev = ev /\ lg[j].lo <= k /\ k < lg[j].hi}

CallsOf(lg, ev) == {j \in 1..Len(lg) : lg[j].ev = ev}

\* the calls made for the file so far are within the bounds: batch embedding
\* and upsert calls at most one per slice of batch_size chunks, single-item
\* calls at most one per chunk and only after the batch call of the chunk
\* failed, no upsert batch sent twice, one rename at most
BoundedCalls(p) ==
    LET lg == log[p]
        n == Len(chunks[p])
    IN /\ Cardinality(CallsOf(lg, "embed_batch")) <= Ceil(n, batch_size)
       /\ Cardinality(CallsOf(lg, "embed_single")) <= n
       /\ Cardinality(CallsOf(lg, "upsert")) <= Ceil(n, batch_size)
       /\ Cardinality(CallsOf(lg, "rename")) <= 1
       /\ \A k \in 0..(n - 1) :
            /\ Cardinality(CallsOn(lg, "embed_batch", k)) <= 1
            /\ Cardinality(CallsOn(lg, "embed_single", k)) <= 1
            /\ Cardinality(CallsOn(lg, "upsert", k)) <= 1
            /\ \A j \in CallsOn(lg, "embed_single", k) :
                 \E i \in CallsOn(lg, "embed_batch", k) : i < j /\ ~lg[i].ok

\* C26: the processing of a file terminates, and for the N chunks of the
\* file it makes at most ceil(N / batch_size) batch embedding calls, at most
\* N single-item embedding calls (a text is sent at most twice, the second
\* time only as the fallback of its failed batch) and at most
\* ceil(N / batch_size) upsert calls, no upsert batch being sent twice.
C26_BoundedCallsAndTermination ==
    /\ [](\A p \in Procs : caller[p] = "pipeline" /\ pc[p] # "idle" => BoundedCalls(p))
    /\ (pc[Runner] = "open") ~> (pc[Runner] = "files")

\* a file of three chunks was processed to its end with two batch calls, the
\* second of which fell back to a single-item call, and two upsert calls
C26_Witness ==
    /\ pc[Runner] = "files"
    /\ Len(chunks[Runner]) = 3
    /\ Cardinality(CallsOf(log[Runner], "embed_batch")) = 2
    /\ Cardinality(CallsOf(log[Runner], "embed_single")) = 1
    /\ Cardinality(CallsOf(log[Runner], "upsert")) = 2
    /\ Cardinality(CallsOf(log[Runner], "rename")) = 1


\* every chunk of the file has been upserted
AllStored(f) == \A k \in ChunkIdx(f) : Stored(f, k)

\* a rename that fails is swallowed: the processing of the file returns its
\* number of chunks to the run, the file stays in data/raw, out of
\* data/processed, and all its chunks have been upserted
RenameFailureSwallowed ==
    \A p \in Procs :
        (pc[p] = "mark" /\ cur[p] \in raw /\ "rename_failed" \in outcome'[p][cur[p]]) =>
            /\ pc'[p] = "files"
            /\ total_records'[p] = total_records[p] + Len(chunks[p])
            /\ Len(chunks[p]) = Len(ChunksOf(cur[p]))
            /\ cur[p] \in raw' /\ cur[p] \notin processed'
            /\ AllStored(cur[p])

\* the run that follows lists the file whose rename failed
RenameFailedListedAgain ==
    \A p \in Procs :
        (pc[p] = "idle" /\ pc'[p] = "files") =>
            \A f \in Files : "rename_failed" \in outcome[p][f] => f \in Range(discovered'[p])

\* a pass over a file whose chunks are all in the store sends all its texts
\* to the embedding again
StoredFileEmbeddedAgain ==
    \A p \in Procs :
        (pc[p] = "open" /\ pc'[p] = "embed" /\ cur[p] \in Files /\ AllStored(cur[p])) =>
            texts'[p] = [i \in 1..Len(ChunksOf(cur[p])) |-> ChunksOf(cur[p])[i].text]

\* C27: a rename that fails after all upserts of a file succeeded is
\* swallowed: the file's processing still returns its chunk count, the file
\* stays in data/raw with all its vectors stored, and the next run lists the
\* file, embeds and upserts the same records again.
C27_RenameFailureSwallowed ==
    [][RenameFailureSwallowed /\ RenameFailedListedAgain /\ StoredFileEmbeddedAgain]_vars

\* comtrade_1 was upserted in full by the first run and left in data/raw,
\* and the second run has upserted its last chunk again, under another id
C27_Witness ==
    /\ runs = 2
    /\ "comtrade_1" \notin partial
    /\ cur[Runner] = "comtrade_1"
    /\ Has(log[Runner], "upsert", TRUE)
    /\ \E u, v \in upserted :
        u[1] = "comtrade_1" /\ v[1] = "comtrade_1" /\ u[2] = 2 /\ v[2] = 2 /\ u[3] # v[3]


\* the file decodes to a non-empty array of which the formatter accepts no
\* record
AllRejected(f) == NonEmptyArray(f) /\ ChunksOf(f) = <<>>

\* the pass over a file without an accepted record calls neither the
\* embedding provider nor the store, and once it has returned with the
\* rename done the file is in data/processed; a file that decodes to an
\* empty array is never in data/processed
NoChunkFileCommitted ==
    /\ \A p \in Procs :
        (caller[p] = "pipeline" /\ cur[p] \in Files /\ AllRejected(cur[p])) =>
            /\ CallsOf(log[p], "embed_batch") = {}
            /\ CallsOf(log[p], "embed_single") = {}
            /\ CallsOf(log[p], "upsert") = {}
            /\ (pc[p] = "files" /\ Has(log[p], "rename", TRUE)) =>
                 cur[p] \in processed /\ cur[p] \notin raw
            /\ (pc[p] = "files" /\ ~Has(log[p], "rename", FALSE)) =>
                 Has(log[p], "rename", TRUE)
    /\ \A f \in Files :
        (content[f].json = "array" /\ content[f].records = <<>>) => f \notin processed

\* the pass over a file without an accepted record adds nothing to the total
NoChunkFileCountsZero ==
    \A p \in Procs :
        (cur[p] \in Files /\ cur'[p] = cur[p] /\ AllRejected(cur[p])) =>
            total_records'[p] = total_records[p]

ComtradeBeforeBl(p) ==
    LET att == attempted[p]
    IN /\ \A i, j \in 1..Len(att) :
            (Kind(att[i]) = "bl" /\ Kind(att[j]) = "comtrade") => j < i
       /\ (\E i \in 1..Len(att) : Kind(att[i]) = "bl") =>
            {f \in Range(discovered[p]) : Kind(f) = "comtrade"} \subseteq Range(att)

\* a file is taken up only when the processing of the file before it has
\* returned, and every call made is a call for the file taken up
OneFileAtATime ==
    \A p \in Procs :
        /\ (cur'[p] # cur[p] /\ cur'[p] # NoFile) =>
            pc[p] = "files" /\ pc'[p] = "open" /\ log'[p] = <<>>
        /\ (cur'[p] # cur[p] /\ cur'[p] = NoFile) =>
            pc[p] = "idle" /\ pc'[p] = "files" /\ log'[p] = <<>>
        /\ (cur'[p] = cur[p] /\ log'[p] # log[p]) =>
            /\ Len(log'[p]) = Len(log[p]) + 1
            /\ SubSeq(log'[p], 1, Len(log[p])) = log[p]
            /\ log'[p][Len(log'[p])].file = cur[p]

\* C29: within a run the files are processed one at a time: every Comtrade
\* file the run listed is processed before any shipment file, a file is
\* opened only after the processing of the file before it has returned, and
\* the embedding and upsert calls of two files never interleave.
C29_FilesOneAtATime ==
    /\ [](\A p \in Procs : caller[p] = "pipeline" => ComtradeBeforeBl(p))
    /\ [][OneFileAtATime]_vars

\* a run has processed its two Comtrade files and then the shipment file,
\* which it committed
C29_Witness ==
    /\ Len(attempted[Runner]) = 3
    /\ Kind(attempted[Runner][3]) = "bl"
    /\ attempted[Runner][3] \in processed
    /\ pc[Runner] = "files"


\* the step of a component succeeds: its script is there, starts, and exits
\* with 0
Succeeds(c) == orch.exists[c] /\ orch.launches[c] /\ orch.exit[c] = 0

\* the step fails as the claim has it: the script is missing, or it exits
\* with a non-zero code
Fails(c) == ~orch.exists[c] \/ (orch.launches[c] /\ orch.exit[c] # 0)

\* C30: run_full_pipeline takes the steps in the order ingestion, etl,
\* monitoring, a step only after the step before it succeeded; at the first
\* step that fails (script missing or non-zero exit) it returns False and
\* has started no later step; it returns True exactly when all three steps
\* succeeded.
C30_StepsInOrderStopAtFailure ==
    orch.at # "none" =>
        /\ \A i \in 1..Len(orch.started) :
            /\ orch.started[i] = steps[i]
            /\ i > 1 => Succeeds(steps[i - 1])
        /\ \A i \in 1..Len(orch.ran) : orch.ran[i] = steps[i]
        /\ (orch.at = "returned" /\ orch.result = "true") =>
            /\ \A c \in Components : Succeeds(c)
            /\ orch.ran = steps
        /\ (orch.at = "returned" /\ orch.result = "false") =>
            /\ Fails(orch.started[Len(orch.started)])
            /\ \A i \in 1..(Len(orch.started) - 1) : Succeeds(steps[i])
        /\ \A i \in 1..Len(orch.started) :
            (Fails(steps[i]) /\ (i < Len(orch.started) \/ orch.at \in {"returned", "raised"}))
                => /\ Len(orch.started) = i
                   /\ orch.at = "returned"
                   /\ orch.result = "false"
        /\ ((\A c \in Components : Succeeds(c)) /\ orch.at = "returned") =>
            orch.result = "true"

\* ingestion ran and exited with 0, the etl script exited with a non-zero
\* code, and run_full_pipeline returned False without starting monitoring
C30_Witness ==
    /\ orch.at = "returned"
    /\ orch.result = "false"
    /\ orch.ran = <<"ingestion", "etl">>
    /\ orch.started = <<"ingestion", "etl">>
    /\ orch.exists["monitoring"] /\ orch.launches["monitoring"]

====
